---------------------------- MODULE Spec2Model ----------------------------
(***************************************************************************)
(* A model of playform's entity / physics / buffer-synchronisation core:   *)
(* the application struct of src/src/main.rs (world_data and the three     *)
(* geometry buffers kept in the same slot order, block deletion by         *)
(* swap-remove, the per-axis translation against the world, the jump       *)
(* fuel), the box intersection test, the GLBuffer of src/src/glw.rs, and   *)
(* the Entity Registry as section 4.2 of the specification describes it.   *)
(* The key handlers, two runs of the handlers side by side, read_pixels    *)
(* and use_shader of src/src/glw.rs and selection_color have              *)
(* specifications of their own.                                            *)
(*                                                                         *)
(* Lengths are GLfloat in the source.  The model keeps them as integers in *)
(* thousandths of a world unit (1.0 is 1000), colour channels in units of  *)
(* 1/255000 (1.0 is 255000, one selection-colour step 1/255 is 1000).      *)
(***************************************************************************)
EXTENDS Integers, Sequences, FiniteSets, TLC

(***************************************************************************)
(* Bounds of the model.                                                    *)
(***************************************************************************)
\* number of blocks that load() constructs (12823 in the source)
MaxBlocks == 4
\* the view is turned at most MaxTurn steps of 3.14/12 rad either way
MaxTurn == 8
\* number of ids the registry specification lets allocate_id hand out
MaxIds == 3
\* number of update ticks the loader specification runs
MaxTicks == 3
\* update() is explored while the camera is less than MaxFall below y = 0
MaxFall == 3000
\* and less than MaxRise above it
MaxRise == 5000
\* box coordinates of the intersection specification range over 0..MaxCoord
MaxCoord == 2
\* the window is at most MaxWindow pixels wide and high
MaxWindow == 3
\* at most MaxHeld walking keys are held down at once
MaxHeld == 1
\* the player walks for at most MaxWalkTicks ticks
MaxWalkTicks == 1
\* the shader programs have the names 1..MaxPrograms
MaxPrograms == 3
\* use_shader calls are nested at most MaxNest deep
MaxNest == 2

(***************************************************************************)
(* Program constants.                                                      *)
(***************************************************************************)
TRIANGLES_PER_BLOCK == 12
LINES_PER_BLOCK == 12
VERTICES_PER_TRIANGLE == 3
VERTICES_PER_LINE == 2
TRIANGLE_VERTICES_PER_BLOCK == TRIANGLES_PER_BLOCK * VERTICES_PER_TRIANGLE
LINE_VERTICES_PER_BLOCK == LINES_PER_BLOCK * VERTICES_PER_LINE
MAX_JUMP_FUEL == 4

\* uint arithmetic wraps; the model keeps a 30-bit width (TLC integers are 32-bit)
UintModulus == 2^30
UintWrap(n) == n % UintModulus

None == -1

(***************************************************************************)
(* Vectors, colours, vertices.                                             *)
(***************************************************************************)
Vector3(x, y, z) == [x |-> x, y |-> y, z |-> z]
VZero == Vector3(0, 0, 0)
VAdd(a, b) == Vector3(a.x + b.x, a.y + b.y, a.z + b.z)
VSub(a, b) == Vector3(a.x - b.x, a.y - b.y, a.z - b.z)
\* cgmath: Vector * Vector multiplies component by component
VMul(a, b) == Vector3(a.x * b.x, a.y * b.y, a.z * b.z)

Color4(r, g, b, a) == <<r, g, b, a>>

Vertex(x, y, z, c) == [position |-> Vector3(x, y, z), color |-> c]

\* the content of buffer memory that was allocated and never written
Uninit == [position |-> VZero, color |-> Color4(-1, -1, -1, -1)]

(***************************************************************************)
(* GLBuffer of main.rs: a fixed-capacity vertex array on the GPU.  data    *)
(* is the buffer memory, capacity vertices long; length counts vertices.   *)
(***************************************************************************)
GLBuffer_null == [length |-> 0, capacity |-> 0, data |-> <<>>]

GLBuffer_new(capacity) ==
  [length |-> 0, capacity |-> capacity, data |-> [k \in 1..capacity |-> Uninit]]

\* A variant that removes the record without moving the last one into its place.
swap_remove_NoCopy(buf, span, i) ==
  [buf EXCEPT !.length = UintWrap(buf.length - span)]

\* A variant that moves the last record but forgets to shrink the buffer.
swap_remove_NoShrink(buf, span, i) ==
  LET length == UintWrap(buf.length - span)
      inRange == length + span <= buf.capacity /\ i * span + span <= buf.capacity
  IN  [buf EXCEPT
         !.data = IF inRange
                  THEN [k \in 1..buf.capacity |->
                          IF k > i * span /\ k <= i * span + span
                          THEN buf.data[length + k - i * span]
                          ELSE buf.data[k]]
                  ELSE buf.data]

\* A variant that shrinks the buffer by one vertex instead of one record.
swap_remove_ShrinkOne(buf, span, i) ==
  LET length == UintWrap(buf.length - span)
      inRange == length + span <= buf.capacity /\ i * span + span <= buf.capacity
  IN  [buf EXCEPT
         !.length = UintWrap(buf.length - 1),
         !.data = IF inRange
                  THEN [k \in 1..buf.capacity |->
                          IF k > i * span /\ k <= i * span + span
                          THEN buf.data[length + k - i * span]
                          ELSE buf.data[k]]
                  ELSE buf.data]

\* GLBuffer::swap_remove(span, i): shrink by span vertices, then copy the span
\* vertices that now lie just past the end over the span vertices of slot i.
\* A transfer that leaves the buffer memory is a GL error and moves nothing.
swap_remove(buf, span, i) ==
  LET length == UintWrap(buf.length - span)
      inRange == length + span <= buf.capacity /\ i * span + span <= buf.capacity
      bytes == [k \in 1..span |-> buf.data[length + k]]
  IN  [buf EXCEPT
         !.length = length,
         !.data = IF inRange
                  THEN [k \in 1..buf.capacity |->
                          IF k > i * span /\ k <= i * span + span
                          THEN bytes[k - i * span]
                          ELSE buf.data[k]]
                  ELSE buf.data]

\* A variant of the test that lets a push into a full buffer through.
Overfilled_OffByOne(buf) == buf.length > buf.capacity

\* GLBuffer::push(vs): fails when the buffer is already full; otherwise writes
\* vs at the end.  Overfilled(buf) is the failing case.
Overfilled(buf) == buf.length >= buf.capacity

push(buf, vs) ==
  LET inRange == buf.length + Len(vs) <= buf.capacity
  IN  [buf EXCEPT
         !.length = buf.length + Len(vs),
         !.data = IF inRange
                  THEN [k \in 1..buf.capacity |->
                          IF k > buf.length /\ k <= buf.length + Len(vs)
                          THEN vs[k - buf.length]
                          ELSE buf.data[k]]
                  ELSE buf.data]

(***************************************************************************)
(* GLBuffer of glw.rs, the later form of the same buffer: swap_remove      *)
(* asserts that the slot is in use and returns early for the last slot,    *)
(* push asserts that the vertices fit.  Both return the buffer and whether *)
(* the assertion failed.                                                   *)
(***************************************************************************)
glw_swap_remove(buf, span, i) ==
  LET i0 == i * span
      length == UintWrap(buf.length - span)
      inRange == /\ length + span <= buf.capacity
                 /\ i0 + span <= buf.capacity
                 /\ (i0 + span <= length \/ length + span <= i0)
  IN  IF ~(i0 < buf.length) THEN [failed |-> TRUE, buf |-> buf]
      ELSE IF i0 = length THEN [failed |-> FALSE, buf |-> [buf EXCEPT !.length = length]]
      ELSE [failed |-> FALSE,
            buf |-> [buf EXCEPT
                       !.length = length,
                       !.data = IF inRange
                                THEN [k \in 1..buf.capacity |->
                                        IF k > i0 /\ k <= i0 + span
                                        THEN buf.data[length + k - i0]
                                        ELSE buf.data[k]]
                                ELSE buf.data]]

glw_push(buf, vs) ==
  IF ~(buf.length + Len(vs) <= buf.capacity) THEN [failed |-> TRUE, buf |-> buf]
  ELSE [failed |-> FALSE,
        buf |-> [buf EXCEPT
                   !.length = buf.length + Len(vs),
                   !.data = [k \in 1..buf.capacity |->
                               IF k > buf.length /\ k <= buf.length + Len(vs)
                               THEN vs[k - buf.length]
                               ELSE buf.data[k]]]]

\* the span vertices of slot i (0-based) of a buffer
Record(buf, span, i) == [k \in 1..span |-> buf.data[i * span + k]]

(***************************************************************************)
(* Blocks.                                                                 *)
(***************************************************************************)
Grass == "Grass"
Dirt == "Dirt"
Stone == "Stone"

to_color(block_type) ==
  CASE block_type = Grass -> Color4(0, 127500, 0, 255000)
    [] block_type = Dirt  -> Color4(51000, 38250, 25500, 255000)
    [] block_type = Stone -> Color4(127500, 127500, 127500, 255000)

Block_new(low_corner, high_corner, block_type) ==
  [low_corner |-> low_corner, high_corner |-> high_corner, block_type |-> block_type]

\* The corners of the 36 triangle vertices, in the order of to_triangles:
\* 1 selects the low and 2 the high coordinate on that axis.
TriangleCorners ==
  << <<1,1,1>>, <<1,2,1>>, <<2,2,1>>,   <<1,1,1>>, <<2,2,1>>, <<2,1,1>>,
     <<1,1,2>>, <<1,2,2>>, <<1,2,1>>,   <<1,1,2>>, <<1,2,1>>, <<1,1,1>>,
     <<1,2,1>>, <<1,2,2>>, <<2,2,2>>,   <<1,2,1>>, <<2,2,2>>, <<2,2,1>>,
     <<2,1,2>>, <<2,2,2>>, <<1,2,2>>,   <<2,1,2>>, <<1,2,2>>, <<1,1,2>>,
     <<2,1,1>>, <<2,2,1>>, <<2,2,2>>,   <<2,1,1>>, <<2,2,2>>, <<2,1,2>>,
     <<1,1,2>>, <<1,1,1>>, <<2,1,1>>,   <<1,1,2>>, <<2,1,1>>, <<2,1,2>> >>

\* The corners of the 24 outline vertices, in the order of to_outlines.
OutlineCorners ==
  << <<1,1,1>>, <<2,1,1>>,   <<1,2,1>>, <<2,2,1>>,
     <<1,1,2>>, <<2,1,2>>,   <<1,2,2>>, <<2,2,2>>,
     <<1,1,1>>, <<1,2,1>>,   <<2,1,1>>, <<2,2,1>>,
     <<1,1,2>>, <<1,2,2>>,   <<2,1,2>>, <<2,2,2>>,
     <<1,1,1>>, <<1,1,2>>,   <<2,1,1>>, <<2,1,2>>,
     <<1,2,1>>, <<1,2,2>>,   <<2,2,1>>, <<2,2,2>> >>

Corner(lo, hi, sel) ==
  Vector3(IF sel[1] = 1 THEN lo.x ELSE hi.x,
          IF sel[2] = 1 THEN lo.y ELSE hi.y,
          IF sel[3] = 1 THEN lo.z ELSE hi.z)

to_triangles(block, c) ==
  [k \in 1..TRIANGLE_VERTICES_PER_BLOCK |->
     [position |-> Corner(block.low_corner, block.high_corner, TriangleCorners[k]),
      color |-> c]]

to_colored_triangles(block) == to_triangles(block, to_color(block.block_type))

\* the outlines lie d = 0.002 outside the block
to_outlines(block) ==
  LET d == 2
      lo == VSub(block.low_corner, Vector3(d, d, d))
      hi == VAdd(block.high_corner, Vector3(d, d, d))
  IN  [k \in 1..LINE_VERTICES_PER_BLOCK |->
         [position |-> Corner(lo, hi, OutlineCorners[k]),
          color |-> Color4(0, 0, 0, 255000)]]

contains_point(block, point) ==
  /\ block.low_corner.x <= point.x /\ point.x <= block.high_corner.x
  /\ block.low_corner.y <= point.y /\ point.y <= block.high_corner.y
  /\ block.low_corner.z <= point.z /\ point.z <= block.high_corner.z


(***************************************************************************)
(* intersect: whether two Blocks intersect, and along which axes.          *)
(***************************************************************************)
Within == "Within"
Partial == "Partial"
NoIntersect1 == "NoIntersect1"

NoIntersect == [tag |-> "NoIntersect", stop |-> VZero]
Intersect(v) == [tag |-> "Intersect", stop |-> v]

\* A variant whose containment test accepts a shared low end.
intersect1_ClosedLow(x1l, x1h, x2l, x2h) ==
  IF x1l >= x2l /\ x1h <= x2h THEN Within
  ELSE IF x1h > x2l /\ x2h > x1l THEN Partial
  ELSE NoIntersect1

intersect1(x1l, x1h, x2l, x2h) ==
  IF x1l > x2l /\ x1h <= x2h THEN Within
  ELSE IF x1h > x2l /\ x2h > x1l THEN Partial
  ELSE NoIntersect1

\* A variant that reports the first axis's verdict on every axis.
intersect_FirstAxisOnly(b1, b2) ==
  LET cx == intersect1(b1.low_corner.x, b1.high_corner.x, b2.low_corner.x, b2.high_corner.x)
      s  == IF cx = Partial THEN 0 ELSE 1
  IN  IF cx # NoIntersect1 THEN Intersect(Vector3(s, s, s)) ELSE NoIntersect

\* ret and v are the locals of the source: v starts as Vector3::ident(), every
\* Partial axis zeroes its component, every NoIntersect1 axis clears ret.
intersect(b1, b2) ==
  LET cx == intersect1(b1.low_corner.x, b1.high_corner.x, b2.low_corner.x, b2.high_corner.x)
      cy == intersect1(b1.low_corner.y, b1.high_corner.y, b2.low_corner.y, b2.high_corner.y)
      cz == intersect1(b1.low_corner.z, b1.high_corner.z, b2.low_corner.z, b2.high_corner.z)
      ret0 == TRUE
      v0 == Vector3(1, 1, 1)
      v1 == IF cx = Partial THEN [v0 EXCEPT !.x = 0] ELSE v0
      ret1 == IF cx = NoIntersect1 THEN FALSE ELSE ret0
      v2 == IF cy = Partial THEN [v1 EXCEPT !.y = 0] ELSE v1
      ret2 == IF cy = NoIntersect1 THEN FALSE ELSE ret1
      v3 == IF cz = Partial THEN [v2 EXCEPT !.z = 0] ELSE v2
      ret3 == IF cz = NoIntersect1 THEN FALSE ELSE ret2
  IN  IF ret3 THEN Intersect(v3) ELSE NoIntersect

(***************************************************************************)
(* The world that load() constructs.  The source builds 12823 blocks; the  *)
(* model keeps the first MaxBlocks of these six of them: a low dirt block, *)
(* the two ground blocks the player comes to stand on, a high dirt block   *)
(* and two wall blocks.                                                    *)
(***************************************************************************)
AllBlocks ==
  << Block_new(Vector3(2000, 6000, -1000), Vector3(3000, 7000, 0), Dirt),
     Block_new(Vector3(-500, 0, 8500), Vector3(500, 1000, 9500), Grass),
     Block_new(Vector3(-500, 0, 9500), Vector3(500, 1000, 10500), Grass),
     Block_new(Vector3(-500, 1000, -32500), Vector3(500, 2000, -31500), Stone),
     Block_new(Vector3(-1000, 12000, 4000), Vector3(0, 13000, 5000), Dirt),
     Block_new(Vector3(-500, 1000, 31500), Vector3(500, 2000, 32500), Stone) >>

World == SubSeq(AllBlocks, 1, MaxBlocks)

\* selection_color(i): the colour that encodes index i in the selection buffer
\* (r, g, b are the three low bytes of i + 1).  The source asserts
\* i < 0xFF000000, which for a u32 says that the top byte is not 0xFF.
selection_color_ok(i) == (i \div 16777216) < 255

mask_r(i) == (i \div 65536) % 256
mask_g(i) == (i \div 256) % 256
mask_b(i) == i % 256

selection_color(i) ==
  LET j == i + 1
  IN  Color4(mask_r(j) * 1000, mask_g(j) * 1000, mask_b(j) * 1000, 255000)


(***************************************************************************)
(* The state.                                                              *)
(***************************************************************************)
VARIABLES
  phase,                \* "new" before load() has run, "running" after it
  failed,               \* a fail! or a failed assert! has ended the process
  world_data,           \* App.world_data: Vec<Block>
  world_triangles,      \* App.world_triangles: GLBuffer<Vertex>
  outlines,             \* App.outlines
  selection_triangles,  \* App.selection_triangles
  is_mouse_pressed,     \* App.is_mouse_pressed
  block_index,          \* the block the last update() deleted, or None
  translations,         \* the translate calls of the last handler, in order
  camera_position,      \* App.camera_position
  camera_speed,         \* App.camera_speed
  camera_accel,         \* App.camera_accel
  jump_fuel,            \* App.jump_fuel
  jumping,              \* App.jumping
  lateral_rotation,     \* App.lateral_rotation, in steps of 3.14/12 rad
  event,                \* the handler that ran last, and its key
  rotation_matrix,      \* App.rotation_matrix: the turn about y and the pitch it
                        \* holds, in steps of 3.14/12 rad
  arg_b1, arg_b2,       \* the two boxes last given to intersect
  result,               \* and what it returned
  registry,             \* the Entity Registry: id counter, bounds and type tables
  registry_log,         \* the ids allocate_id returned and remove erased, in order
  registry_failed,      \* a registry operation has hit a fatal error
  loader,               \* the Incremental Loader: next_load_id, the descriptors
                        \* waiting for it, the slot order it has built, its ticks
  buffer,               \* a GLBuffer of main.rs on its own, and whether a call failed
  glw_buffer,           \* a GLBuffer of glw.rs given the same calls
  buffer_op,            \* the last call made on the two, and the slot it named
  pixel_call,           \* a call of read_pixels: its arguments and its outcome
  color_call,           \* two calls of selection_color: the ids and the colours
  gl_context,           \* the program OpenGL has in use, the use_shader calls that
                        \* have not returned, and the last one that has
  keys_down,            \* the keyboard: the walking keys that are held down
  ticks,                \* the update ticks so far, where their number is bounded
  twin                  \* a second run of the application, given the same events

appVars ==
  << phase, failed, world_data, world_triangles, outlines, selection_triangles,
     is_mouse_pressed, block_index, translations, camera_position, camera_speed,
     camera_accel, jump_fuel, jumping, lateral_rotation, rotation_matrix, event >>

isectVars == << arg_b1, arg_b2, result >>

regVars == << registry, registry_log, registry_failed, loader >>

bufVars == << buffer, glw_buffer, buffer_op >>

callVars == << pixel_call, color_call, gl_context >>

runVars == << keys_down, ticks, twin >>

vars == << appVars, isectVars, regVars, bufVars, callVars, runVars >>

\* The application struct as one value, and its assignment to the state.
App ==
  [phase |-> phase, failed |-> failed, world_data |-> world_data,
   world_triangles |-> world_triangles, outlines |-> outlines,
   selection_triangles |-> selection_triangles,
   is_mouse_pressed |-> is_mouse_pressed, block_index |-> block_index,
   translations |-> translations, camera_position |-> camera_position,
   camera_speed |-> camera_speed, camera_accel |-> camera_accel,
   jump_fuel |-> jump_fuel, jumping |-> jumping,
   lateral_rotation |-> lateral_rotation, rotation_matrix |-> rotation_matrix,
   event |-> event]

SetApp(app) ==
  /\ phase' = app.phase
  /\ failed' = app.failed
  /\ world_data' = app.world_data
  /\ world_triangles' = app.world_triangles
  /\ outlines' = app.outlines
  /\ selection_triangles' = app.selection_triangles
  /\ is_mouse_pressed' = app.is_mouse_pressed
  /\ block_index' = app.block_index
  /\ translations' = app.translations
  /\ camera_position' = app.camera_position
  /\ camera_speed' = app.camera_speed
  /\ camera_accel' = app.camera_accel
  /\ jump_fuel' = app.jump_fuel
  /\ jumping' = app.jumping
  /\ lateral_rotation' = app.lateral_rotation
  /\ rotation_matrix' = app.rotation_matrix
  /\ event' = app.event

(***************************************************************************)
(* Vec<Block>.                                                             *)
(***************************************************************************)
\* A variant that overwrites the removed slot and forgets to drop the last one.
Vec_swap_remove_NoPop(v, index) ==
  IF index >= Len(v) THEN v
  ELSE [k \in 1..Len(v) |-> IF k = index + 1 THEN v[Len(v)] ELSE v[k]]

\* A variant that closes the gap by shifting the tail (Vec::remove).
Vec_swap_remove_Shift(v, index) ==
  IF index >= Len(v) THEN v
  ELSE [k \in 1..(Len(v) - 1) |-> IF k >= index + 1 THEN v[k + 1] ELSE v[k]]

\* A variant that leaves the vector as it is.
Vec_swap_remove_Noop(v, index) == v

\* Vec::swap_remove(index): the last element takes the place of the removed
\* one; an index out of bounds removes nothing.
Vec_swap_remove(v, index) ==
  IF index >= Len(v) THEN v
  ELSE [k \in 1..(Len(v) - 1) |-> IF k = index + 1 THEN v[Len(v)] ELSE v[k]]

(***************************************************************************)
(* The rotation matrix.  Every factor the program multiplies into it is a  *)
(* rotation about y (rotate_lateral) or about right(), the x axis turned   *)
(* by lateral_rotation (rotate_vertical); the product of these is the      *)
(* pitch about x after the turn about y, and the model keeps the two       *)
(* angles.                                                                 *)
(***************************************************************************)
Matrix4_identity == [lateral |-> 0, vertical |-> 0]

\* rotate(unit_y, r) and rotate(right(), r): rotation_matrix * from_axis_angle(v, -r)
rotate_y(matrix, r) == [matrix EXCEPT !.lateral = @ + r]
rotate_right(matrix, r) == [matrix EXCEPT !.vertical = @ + r]

(***************************************************************************)
(* App::new, the state before the window calls load().                     *)
(***************************************************************************)
AppInit ==
  /\ phase = "new"
  /\ failed = FALSE
  /\ world_data = <<>>
  /\ world_triangles = GLBuffer_null
  /\ outlines = GLBuffer_null
  /\ selection_triangles = GLBuffer_null
  /\ is_mouse_pressed = FALSE
  /\ block_index = None
  /\ translations = <<>>
  /\ camera_position = VZero
  /\ camera_speed = VZero
  /\ camera_accel = Vector3(0, -100, 0)
  /\ jump_fuel = 0
  /\ jumping = FALSE
  /\ lateral_rotation = 0
  /\ rotation_matrix = Matrix4_identity
  /\ event = [name |-> "new", key |-> ""]

NoBox == Block_new(VZero, VZero, Stone)

IsectIdle ==
  /\ arg_b1 = NoBox
  /\ arg_b2 = NoBox
  /\ result = NoIntersect

\* The Entity Registry of sections 3 and 4.2: ids 0 and 1 are reserved, the
\* counter starts at 2 and both tables are empty.
RegistryInit ==
  /\ registry = [next_id |-> 2, physics |-> <<>>, blocks |-> <<>>]
  /\ registry_log = <<>>
  /\ registry_failed = FALSE
  /\ loader = [next_load_id |-> 2, queue |-> <<>>, index_to_id |-> <<>>, ticks |-> 0]

\* the outline buffer as load() allocates it, before anything is pushed
BufferInit ==
  /\ buffer = [failed |-> FALSE, buf |-> GLBuffer_new(Len(World) * LINE_VERTICES_PER_BLOCK)]
  /\ glw_buffer = [failed |-> FALSE, buf |-> GLBuffer_new(Len(World) * LINE_VERTICES_PER_BLOCK)]
  /\ buffer_op = [name |-> "new", slot |-> None]

\* no walking key is down, no tick is counted, and the second run starts as
\* the first
RunInit ==
  /\ keys_down = {}
  /\ ticks = 0
  /\ twin = App

\* no program is in use and use_shader has not been called
GLIdle ==
  gl_context = [current_program |-> 0, calls |-> << >>,
                returned |-> [old_shader |-> 0, shader |-> 0, current_program |-> 0]]

\* no call of read_pixels, selection_color or use_shader is being looked at
CallIdle ==
  /\ pixel_call = [x |-> 0, y |-> 0, window_height |-> 1, window_width |-> 1,
                   outcome |-> "none"]
  /\ color_call = [ids |-> << 0, 0 >>, outcome |-> "none"]
  /\ GLIdle

Init == AppInit /\ IsectIdle /\ RegistryInit /\ BufferInit /\ CallIdle /\ RunInit

(***************************************************************************)
(* The player.                                                             *)
(***************************************************************************)
construct_player(high_corner) ==
  Block_new(VSub(high_corner, Vector3(500, 2000, 1000)), high_corner, Stone)

\* The slot of the first block of wd that player intersects, or None:
\* Iterator::any stops at the first block for which the closure is true.
RECURSIVE FirstHit(_, _, _)
FirstHit(player, wd, i) ==
  IF i >= Len(wd) THEN None
  ELSE IF intersect(player, wd[i + 1]).tag = "Intersect" THEN i
  ELSE FirstHit(player, wd, i + 1)

\* A variant that does not take the fuel away when the player falls freely.
translate_NoReset(p, wd, v) ==
  LET player == construct_player(VAdd(p.camera_position, v))
      hit == FirstHit(player, wd, 0)
      collided == hit # None
      d_camera_speed ==
        IF collided THEN VSub(VMul(v, intersect(player, wd[hit + 1]).stop), v) ELSE VZero
  IN  [camera_position |-> IF collided THEN p.camera_position
                                       ELSE VAdd(p.camera_position, v),
       camera_speed |-> VAdd(p.camera_speed, d_camera_speed),
       jump_fuel |-> IF collided /\ v.y < 0 THEN MAX_JUMP_FUEL ELSE p.jump_fuel]

\* A variant that forgets to add d_camera_speed to the speed.
translate_KeepSpeed(p, wd, v) ==
  LET player == construct_player(VAdd(p.camera_position, v))
      collided == FirstHit(player, wd, 0) # None
  IN  [camera_position |-> IF collided THEN p.camera_position
                                       ELSE VAdd(p.camera_position, v),
       camera_speed |-> p.camera_speed,
       jump_fuel |-> IF v.y < 0 THEN (IF collided THEN MAX_JUMP_FUEL ELSE 0)
                                ELSE p.jump_fuel]

\* A variant that moves the player whether or not the move collides.
translate_AlwaysMove(p, wd, v) ==
  LET player == construct_player(VAdd(p.camera_position, v))
      hit == FirstHit(player, wd, 0)
      collided == hit # None
      d_camera_speed ==
        IF collided THEN VSub(VMul(v, intersect(player, wd[hit + 1]).stop), v) ELSE VZero
  IN  [camera_position |-> VAdd(p.camera_position, v),
       camera_speed |-> VAdd(p.camera_speed, d_camera_speed),
       jump_fuel |-> IF v.y < 0 THEN (IF collided THEN MAX_JUMP_FUEL ELSE 0)
                                ELSE p.jump_fuel]

\* A variant that stops the player along v on every attempt.
translate_AlwaysStop(p, wd, v) ==
  LET player == construct_player(VAdd(p.camera_position, v))
      collided == FirstHit(player, wd, 0) # None
  IN  [camera_position |-> IF collided THEN p.camera_position
                                       ELSE VAdd(p.camera_position, v),
       camera_speed |-> VSub(p.camera_speed, v),
       jump_fuel |-> IF v.y < 0 THEN (IF collided THEN MAX_JUMP_FUEL ELSE 0)
                                ELSE p.jump_fuel]

\* A variant that stops the player along every axis when it collides.
translate_StopsAll(p, wd, v) ==
  LET player == construct_player(VAdd(p.camera_position, v))
      collided == FirstHit(player, wd, 0) # None
  IN  [camera_position |-> IF collided THEN p.camera_position
                                       ELSE VAdd(p.camera_position, v),
       camera_speed |-> IF collided THEN VZero ELSE p.camera_speed,
       jump_fuel |-> IF v.y < 0 THEN (IF collided THEN MAX_JUMP_FUEL ELSE 0)
                                ELSE p.jump_fuel]

\* the adjustments of all the blocks of wd from slot i on that player intersects, added up
RECURSIVE EveryHit(_, _, _, _)
EveryHit(player, wd, v, i) ==
  IF i >= Len(wd) THEN VZero
  ELSE VAdd(IF intersect(player, wd[i + 1]).tag = "Intersect"
            THEN VSub(VMul(v, intersect(player, wd[i + 1]).stop), v) ELSE VZero,
            EveryHit(player, wd, v, i + 1))

\* A variant that adjusts the speed once for every block the player would
\* intersect.
translate_EveryHit(p, wd, v) ==
  LET player == construct_player(VAdd(p.camera_position, v))
      collided == FirstHit(player, wd, 0) # None
  IN  [camera_position |-> IF collided THEN p.camera_position
                                       ELSE VAdd(p.camera_position, v),
       camera_speed |-> VAdd(p.camera_speed, EveryHit(player, wd, v, 0)),
       jump_fuel |-> IF v.y < 0 THEN (IF collided THEN MAX_JUMP_FUEL ELSE 0)
                                ELSE p.jump_fuel]

\* App::translate(v) on the player state p = [camera_position, camera_speed,
\* jump_fuel] against the blocks wd.
translate(p, wd, v) ==
  LET player == construct_player(VAdd(p.camera_position, v))
      hit == FirstHit(player, wd, 0)
      collided == hit # None
      d_camera_speed ==
        IF collided
        THEN VSub(VMul(v, intersect(player, wd[hit + 1]).stop), v)
        ELSE VZero
      speed == VAdd(p.camera_speed, d_camera_speed)
  IN  IF collided
      THEN [camera_position |-> p.camera_position,
            camera_speed |-> speed,
            jump_fuel |-> IF v.y < 0 THEN MAX_JUMP_FUEL ELSE p.jump_fuel]
      ELSE [camera_position |-> VAdd(p.camera_position, v),
            camera_speed |-> speed,
            jump_fuel |-> IF v.y < 0 THEN 0 ELSE p.jump_fuel]

\* One call of translate as the handlers make it: the argument, the player
\* state before and after, and the blocks it was tested against.
Translation(p, wd, v) ==
  [v |-> v, before |-> p, after |-> translate(p, wd, v), blocks |-> wd]

\* x * num / den, rounded towards zero
Scale(x, num, den) ==
  IF x >= 0 THEN (x * num) \div den ELSE -(((-x) * num) \div den)

\* cos and sin of k steps of 3.14/12 rad, in thousandths
CosTable ==
  << 1000, 966, 866, 707, 500, 259, 0, -259, -500, -707, -866, -966,
     -1000, -966, -866, -707, -500, -259, 0, 259, 500, 707, 866, 966 >>
Cos(k) == CosTable[(k % 24) + 1]
Sin(k) == Cos(k - 6)

\* Matrix3::from_axis_angle(unit_y, angle).mul_v(v)
from_axis_angle_y(angle, v) ==
  Vector3(Scale(Cos(angle) * v.x + Sin(angle) * v.z, 1, 1000),
          v.y,
          Scale(Cos(angle) * v.z - Sin(angle) * v.x, 1, 1000))


(***************************************************************************)
(* load(): place the camera, construct the world, allocate the buffers     *)
(* and fill them from world_data.                                          *)
(***************************************************************************)
\* A variant that walks world_data from its last block to its first.
RECURSIVE make_world_render_data_Reversed(_, _, _)
make_world_render_data_Reversed(wd, i, r) ==
  IF i >= Len(wd) \/ r.failed THEN r
  ELSE LET block == wd[Len(wd) - i] IN
       IF \/ Overfilled(r.world_triangles)
          \/ Overfilled(r.outlines)
          \/ ~selection_color_ok(i)
          \/ Overfilled(r.selection_triangles)
       THEN [r EXCEPT !.failed = TRUE]
       ELSE make_world_render_data_Reversed(wd, i + 1,
              [world_triangles |-> push(r.world_triangles, to_colored_triangles(block)),
               outlines |-> push(r.outlines, to_outlines(block)),
               selection_triangles |->
                 push(r.selection_triangles,
                      to_triangles(block, selection_color(Len(wd) - 1 - i))),
               failed |-> FALSE])

\* make_world_render_data from block i on: one record per block and buffer,
\* in world_data order; r carries the three buffers and the failure flag.
RECURSIVE make_world_render_data(_, _, _)
make_world_render_data(wd, i, r) ==
  IF i >= Len(wd) \/ r.failed THEN r
  ELSE LET block == wd[i + 1] IN
       IF \/ Overfilled(r.world_triangles)
          \/ Overfilled(r.outlines)
          \/ ~selection_color_ok(i)
          \/ Overfilled(r.selection_triangles)
       THEN [r EXCEPT !.failed = TRUE]
       ELSE make_world_render_data(wd, i + 1,
              [world_triangles |-> push(r.world_triangles, to_colored_triangles(block)),
               outlines |-> push(r.outlines, to_outlines(block)),
               selection_triangles |->
                 push(r.selection_triangles, to_triangles(block, selection_color(i))),
               failed |-> FALSE])

\* the player state translate works on
Player(app) ==
  [camera_position |-> app.camera_position, camera_speed |-> app.camera_speed,
   jump_fuel |-> app.jump_fuel]

\* what a handler that calls neither translate nor swap_remove leaves in the
\* history variables
Handled(app, name, key) ==
  [app EXCEPT !.block_index = None, !.translations = << >>,
              !.event = [name |-> name, key |-> key]]

load(app) ==
  LET p == translate(Player(app), app.world_data, Vector3(0, 4000, 10000))
      wd == World
      r == make_world_render_data(wd, 0,
             [world_triangles |-> GLBuffer_new(Len(wd) * TRIANGLE_VERTICES_PER_BLOCK),
              outlines |-> GLBuffer_new(Len(wd) * LINE_VERTICES_PER_BLOCK),
              selection_triangles |-> GLBuffer_new(Len(wd) * TRIANGLE_VERTICES_PER_BLOCK),
              failed |-> FALSE])
  IN  [app EXCEPT !.camera_position = p.camera_position,
                  !.camera_speed = p.camera_speed,
                  !.jump_fuel = p.jump_fuel,
                  !.translations =
                     << Translation(Player(app), app.world_data,
                                    Vector3(0, 4000, 10000)) >>,
                  !.world_data = wd,
                  !.world_triangles = r.world_triangles,
                  !.outlines = r.outlines,
                  !.selection_triangles = r.selection_triangles,
                  !.failed = r.failed,
                  !.phase = "running",
                  !.block_index = None,
                  !.event = [name |-> "load", key |-> ""]]

Load ==
  /\ phase = "new"
  /\ ~failed
  /\ \E app \in {load(App)} : SetApp(app)
  /\ UNCHANGED << isectVars, regVars, bufVars, callVars, runVars >>

(***************************************************************************)
(* mouse_press / mouse_release with the left button.                       *)
(***************************************************************************)
mouse_press(app) == Handled([app EXCEPT !.is_mouse_pressed = TRUE], "mouse_press", "")

mouse_release(app) == Handled([app EXCEPT !.is_mouse_pressed = FALSE], "mouse_release", "")

MousePress ==
  /\ phase = "running"
  /\ ~failed
  /\ \E app \in {mouse_press(App)} : SetApp(app)
  /\ UNCHANGED << isectVars, regVars, bufVars, callVars, runVars >>

MouseRelease ==
  /\ phase = "running"
  /\ ~failed
  /\ \E app \in {mouse_release(App)} : SetApp(app)
  /\ UNCHANGED << isectVars, regVars, bufVars, callVars, runVars >>

(***************************************************************************)
(* key_press / key_release.  A, D, W, S and LShift walk: each adds 0.2 of  *)
(* its direction to the acceleration when pressed and the opposite when    *)
(* released.  The space bar starts and stops a jump.  Left and Right turn  *)
(* the view by 3.14/12 rad about y, Up and Down pitch it by 3.14/12 rad.   *)
(***************************************************************************)
WalkKeys == {"A", "D", "LShift", "W", "S"}

walk(app, da) ==
  [app EXCEPT !.camera_accel = VAdd(@, Vector3(da.x * 200, da.y * 200, da.z * 200))]

\* the direction key_press walks in for a walking key
key_press_walk(key) ==
  CASE key = "A" -> Vector3(-1, 0, 0)
    [] key = "D" -> Vector3(1, 0, 0)
    [] key = "LShift" -> Vector3(0, -1, 0)
    [] key = "W" -> Vector3(0, 0, -1)
    [] key = "S" -> Vector3(0, 0, 1)

\* A variant that walks on as key_press did.
key_release_walk_NotNegated(key) == key_press_walk(key)

\* the direction key_release walks in: the negation of that of key_press
key_release_walk(key) ==
  CASE key = "A" -> Vector3(1, 0, 0)
    [] key = "D" -> Vector3(-1, 0, 0)
    [] key = "LShift" -> Vector3(0, 1, 0)
    [] key = "W" -> Vector3(0, 0, 1)
    [] key = "S" -> Vector3(0, 0, -1)

\* A variant that adds the 0.3 on every press of the space bar.
key_press_Space_NoTest(app) ==
  [app EXCEPT !.jumping = TRUE, !.camera_accel.y = @ + 300]

key_press_Space(app) ==
  IF ~app.jumping
  THEN [app EXCEPT !.jumping = TRUE, !.camera_accel.y = @ + 300]
  ELSE app

\* A variant that stops the jump and leaves the 0.3 in the acceleration.
key_release_Space_KeepsImpulse(app) ==
  IF app.jumping THEN [app EXCEPT !.jumping = FALSE] ELSE app

key_release_Space(app) ==
  IF app.jumping
  THEN [app EXCEPT !.jumping = FALSE, !.camera_accel.y = @ - 300]
  ELSE app

rotate_lateral(app, r) ==
  [app EXCEPT !.lateral_rotation = @ + r,
              !.rotation_matrix = rotate_y(@, r)]

rotate_vertical(app, r) ==
  [app EXCEPT !.rotation_matrix = rotate_right(@, r)]

key_press(app, key) ==
  Handled(CASE key \in WalkKeys -> walk(app, key_press_walk(key))
            [] key = "Space" -> key_press_Space(app)
            [] key = "Left" -> rotate_lateral(app, 1)
            [] key = "Right" -> rotate_lateral(app, -1)
            [] key = "Up" -> rotate_vertical(app, 1)
            [] key = "Down" -> rotate_vertical(app, -1)
            [] OTHER -> app,
          "key_press", key)

key_release(app, key) ==
  Handled(CASE key \in WalkKeys -> walk(app, key_release_walk(key))
            [] key = "Space" -> key_release_Space(app)
            [] OTHER -> app,
          "key_release", key)

JumpPress ==
  /\ phase = "running"
  /\ ~failed
  /\ \E app \in {key_press(App, "Space")} : SetApp(app)
  /\ UNCHANGED << isectVars, regVars, bufVars, callVars, runVars >>

JumpRelease ==
  /\ phase = "running"
  /\ ~failed
  /\ \E app \in {key_release(App, "Space")} : SetApp(app)
  /\ UNCHANGED << isectVars, regVars, bufVars, callVars, runVars >>

RotateLateral ==
  /\ phase = "running"
  /\ ~failed
  /\ \E key \in {"Left", "Right"} :
       \E app \in {key_press(App, key)} :
          /\ app.lateral_rotation >= -MaxTurn /\ app.lateral_rotation <= MaxTurn
          /\ SetApp(app)
  /\ UNCHANGED << isectVars, regVars, bufVars, callVars, runVars >>

RotateVertical ==
  /\ phase = "running"
  /\ ~failed
  /\ \E key \in {"Up", "Down"} :
       \E app \in {key_press(App, key)} :
          /\ app.rotation_matrix.vertical >= -MaxTurn
          /\ app.rotation_matrix.vertical <= MaxTurn
          /\ SetApp(app)
  /\ UNCHANGED << isectVars, regVars, bufVars, callVars, runVars >>

\* The keyboard: a walking key that is up goes down, one that is down goes
\* up (the window passes on no repeated press of a held key).
WalkPress ==
  /\ phase = "running"
  /\ ~failed
  /\ Cardinality(keys_down) < MaxHeld
  /\ \E key \in WalkKeys \ keys_down :
       /\ \E app \in {key_press(App, key)} : SetApp(app)
       /\ keys_down' = keys_down \cup {key}
  /\ UNCHANGED << ticks, twin >>
  /\ UNCHANGED << isectVars, regVars, bufVars, callVars >>

WalkRelease ==
  /\ phase = "running"
  /\ ~failed
  /\ \E key \in keys_down :
       /\ \E app \in {key_release(App, key)} : SetApp(app)
       /\ keys_down' = keys_down \ {key}
  /\ UNCHANGED << ticks, twin >>
  /\ UNCHANGED << isectVars, regVars, bufVars, callVars >>

(***************************************************************************)
(* update(): jump fuel, the three single-axis translations, the velocity,  *)
(* then block deletion.                                                    *)
(***************************************************************************)
Center(b) ==
  Vector3((b.low_corner.x + b.high_corner.x) \div 2,
          (b.low_corner.y + b.high_corner.y) \div 2,
          (b.low_corner.z + b.high_corner.z) \div 2)

\* The world positions the depth read at the screen centre may unproject to:
\* the middle of any constructed block, a point on the face the two ground
\* blocks share, and a point in the open.
PickPoints ==
  {Center(World[k]) : k \in 1..Len(World)}
    \cup {Vector3(0, 500, 9500), Vector3(0, 50000, 0)}

\* block_at_screen, given the unprojected world position: the first block
\* that contains it, or None.
RECURSIVE find_block(_, _, _)
find_block(wd, world_position, i) ==
  IF i >= Len(wd) THEN None
  ELSE IF contains_point(wd[i + 1], world_position) THEN i
  ELSE find_block(wd, world_position, i + 1)

block_at_screen(wd, world_position) == find_block(wd, world_position, 0)

\* A variant that spends fuel on every tick of a jump, also when none is left.
update_jump_NoFuelCheck(is_jumping, fuel, accel) ==
  IF is_jumping
  THEN [jumping |-> TRUE, jump_fuel |-> UintWrap(fuel - 1), camera_accel |-> accel]
  ELSE [jumping |-> FALSE, jump_fuel |-> fuel, camera_accel |-> accel]

\* A variant that spends fuel on every tick, jumping or not.
update_jump_AlwaysSpends(is_jumping, fuel, accel) ==
  IF fuel > 0
  THEN [jumping |-> is_jumping, jump_fuel |-> fuel - 1, camera_accel |-> accel]
  ELSE [jumping |-> FALSE, jump_fuel |-> fuel,
        camera_accel |-> IF is_jumping THEN [accel EXCEPT !.y = @ - 300] ELSE accel]

\* A variant that takes the 0.3 back and leaves the jump on.
update_jump_StaysOn(is_jumping, fuel, accel) ==
  IF is_jumping
  THEN IF fuel > 0
       THEN [jumping |-> TRUE, jump_fuel |-> fuel - 1, camera_accel |-> accel]
       ELSE [jumping |-> TRUE, jump_fuel |-> fuel,
             camera_accel |-> [accel EXCEPT !.y = @ - 300]]
  ELSE [jumping |-> FALSE, jump_fuel |-> fuel, camera_accel |-> accel]

\* A variant that never spends the fuel of a jump.
update_jump_KeepsFuel(is_jumping, fuel, accel) ==
  IF is_jumping
  THEN IF fuel > 0
       THEN [jumping |-> TRUE, jump_fuel |-> fuel, camera_accel |-> accel]
       ELSE [jumping |-> FALSE, jump_fuel |-> fuel,
             camera_accel |-> [accel EXCEPT !.y = @ - 300]]
  ELSE [jumping |-> FALSE, jump_fuel |-> fuel, camera_accel |-> accel]

\* The first step of update(): a jump spends one unit of fuel per tick and
\* ends, taking its 0.3 of upward acceleration back, when none is left.
update_jump(is_jumping, fuel, accel) ==
  IF is_jumping
  THEN IF fuel > 0
       THEN [jumping |-> TRUE, jump_fuel |-> fuel - 1, camera_accel |-> accel]
       ELSE [jumping |-> FALSE, jump_fuel |-> fuel,
             camera_accel |-> [accel EXCEPT !.y = @ - 300]]
  ELSE [jumping |-> FALSE, jump_fuel |-> fuel, camera_accel |-> accel]

\* A variant that gives up the rest of the move at the first collision.
update_player_StopsAtCollision(app) ==
  LET dP == app.camera_speed
      p0 == Player(app)
      t1 == IF dP.x # 0 THEN << Translation(p0, app.world_data, Vector3(dP.x, 0, 0)) >>
                        ELSE << >>
      p1 == IF dP.x # 0 THEN t1[1].after ELSE p0
      go2 == dP.y # 0 /\ p1.camera_speed = p0.camera_speed
      t2 == IF go2 THEN << Translation(p1, app.world_data, Vector3(0, dP.y, 0)) >>
                   ELSE << >>
      p2 == IF go2 THEN t2[1].after ELSE p1
      go3 == dP.z # 0 /\ p2.camera_speed = p0.camera_speed
      t3 == IF go3 THEN << Translation(p2, app.world_data, Vector3(0, 0, dP.z)) >>
                   ELSE << >>
      p3 == IF go3 THEN t3[1].after ELSE p2
      dV == from_axis_angle_y(app.lateral_rotation, app.camera_accel)
      sum == VAdd(p3.camera_speed, dV)
  IN  [app EXCEPT
         !.translations = t1 \o t2 \o t3,
         !.jump_fuel = p3.jump_fuel,
         !.camera_position = p3.camera_position,
         !.camera_speed = Vector3(Scale(sum.x, 7, 10), Scale(sum.y, 99, 100),
                                  Scale(sum.z, 7, 10))]

\* the player state the next call of translate starts from: what the last
\* call left, or the player as the tick found it
PlayerAfter(app, log) ==
  IF log = << >> THEN Player(app) ELSE log[Len(log)].after

\* translate(v) if the player moves along v's axis; log holds the calls of
\* this tick so far
translate_along(app, log, v) ==
  IF v = VZero THEN log
  ELSE Append(log, Translation(PlayerAfter(app, log), app.world_data, v))

\* the acceleration turned by lateral_rotation is added to the speed the
\* translate calls left, then the friction
update_speed(app, log) ==
  LET p == PlayerAfter(app, log)
      dV == from_axis_angle_y(app.lateral_rotation, app.camera_accel)
      sum == VAdd(p.camera_speed, dV)
  IN  [app EXCEPT
         !.translations = log,
         !.jump_fuel = p.jump_fuel,
         !.camera_position = p.camera_position,
         !.camera_speed = Vector3(Scale(sum.x, 7, 10), Scale(sum.y, 99, 100),
                                  Scale(sum.z, 7, 10))]

\* The second step: one translate call for each axis along which the player
\* moves, x, y, z, then the acceleration and the friction.
update_player(app) ==
  LET dP == app.camera_speed
  IN  update_speed(app,
        translate_along(app,
          translate_along(app,
            translate_along(app, << >>, Vector3(dP.x, 0, 0)),
            Vector3(0, dP.y, 0)),
          Vector3(0, 0, dP.z)))

\* A variant that drops the last selection record instead of the deleted
\* block's.
delete_block_PopsSelection(app, found) ==
  IF found = None THEN [app EXCEPT !.block_index = None]
  ELSE IF ~(found < Len(app.world_data))
  THEN [app EXCEPT !.failed = TRUE, !.block_index = None]
  ELSE [app EXCEPT
          !.world_data = Vec_swap_remove(@, found),
          !.world_triangles = swap_remove(@, TRIANGLE_VERTICES_PER_BLOCK, found),
          !.outlines = swap_remove(@, LINE_VERTICES_PER_BLOCK, found),
          !.selection_triangles =
             swap_remove(@, TRIANGLE_VERTICES_PER_BLOCK, Len(app.world_data) - 1),
          !.block_index = found]

\* The third step, with the left button down: the block block_at_screen
\* finds, if any, leaves world_data and the three buffers.
delete_block(app, found) ==
  IF found = None THEN [app EXCEPT !.block_index = None]
  ELSE IF ~(found < Len(app.world_data))
  THEN [app EXCEPT !.failed = TRUE, !.block_index = None]
  ELSE [app EXCEPT
          !.world_data = Vec_swap_remove(@, found),
          !.world_triangles = swap_remove(@, TRIANGLE_VERTICES_PER_BLOCK, found),
          !.outlines = swap_remove(@, LINE_VERTICES_PER_BLOCK, found),
          !.selection_triangles = swap_remove(@, TRIANGLE_VERTICES_PER_BLOCK, found),
          !.block_index = found]

\* the first step on the whole App
update_jumping(app) ==
  LET j == update_jump(app.jumping, app.jump_fuel, app.camera_accel)
  IN  [app EXCEPT !.jumping = j.jumping, !.jump_fuel = j.jump_fuel,
                  !.camera_accel = j.camera_accel,
                  !.event = [name |-> "update", key |-> ""]]

\* A variant that looks for a block to delete whether the button is down or
\* not.
update_delete_IgnoresButton(app, world_position) ==
  delete_block(app, block_at_screen(app.world_data, world_position))

\* the third step on the whole App: nothing is looked up while the button
\* is up
update_delete(app, world_position) ==
  IF app.is_mouse_pressed
  THEN delete_block(app, block_at_screen(app.world_data, world_position))
  ELSE [app EXCEPT !.block_index = None]

\* A variant that deletes the block first and moves the player afterwards.
update_DeleteFirst(app, world_position, elapsed) ==
  update_player(update_delete(update_jumping(app), world_position))

\* A variant that moves the player as far as the measured time allows.
update_ByElapsedTime(app, world_position, elapsed) ==
  update_delete(
    update_player(
      [update_jumping(app) EXCEPT
         !.camera_speed = Vector3(Scale(@.x, elapsed, 16), Scale(@.y, elapsed, 16),
                                  Scale(@.z, elapsed, 16))]),
    world_position)

\* A variant that looks at the jump after the speed has been integrated.
update_JumpLast(app, world_position, elapsed) ==
  update_delete(update_jumping(update_player(app)), world_position)

\* update(): world_position is what block_at_screen unprojects from the
\* depth buffer; elapsed is the time the stopwatch of time! measures for the
\* call, which goes to self.timers and nowhere else.
update(app, world_position, elapsed) ==
  update_delete(update_player(update_jumping(app)), world_position)

\* the times a tick may take, in milliseconds
Elapsed == {16, 17}

\* what the depth buffer may hold when update looks at it; with the button
\* up update does not look, and the middle of the first block stands for
\* all it may hold
Picks == IF is_mouse_pressed THEN PickPoints ELSE {Center(World[1])}

\* update() while the player is between MaxFall below and MaxRise above the
\* ground level
Ticking ==
  /\ phase = "running"
  /\ ~failed
  /\ camera_position.y > -MaxFall
  /\ camera_position.y < MaxRise

Update ==
  /\ Ticking
  /\ \E world_position \in Picks :
       \E app \in {update(App, world_position, elapsed) : elapsed \in Elapsed} : SetApp(app)
  /\ UNCHANGED << isectVars, regVars, bufVars, callVars, runVars >>

Next == Load \/ MousePress \/ MouseRelease \/ Update

Spec == Init /\ [][Next]_vars

\* update() while the player walks, for the first MaxWalkTicks ticks
WalkTick ==
  /\ Ticking
  /\ ticks < MaxWalkTicks
  /\ \E world_position \in Picks :
       \E app \in {update(App, world_position, elapsed) : elapsed \in Elapsed} : SetApp(app)
  /\ ticks' = ticks + 1
  /\ UNCHANGED << keys_down, twin >>
  /\ UNCHANGED << isectVars, regVars, bufVars, callVars >>

\* The player walking: the walking keys, the space bar and the ticks.
NextWalk == Load \/ WalkPress \/ WalkRelease \/ JumpPress \/ JumpRelease \/ WalkTick

SpecWalk == Init /\ [][NextWalk]_vars

\* Two runs side by side: every event goes to both, the second run's
\* stopwatch measuring what it will; MaxTicks ticks.
Handle(app, e) ==
  CASE e.name = "mouse_press" -> mouse_press(app)
    [] e.name = "mouse_release" -> mouse_release(app)
    [] e.name = "key_press" -> key_press(app, e.key)
    [] e.name = "key_release" -> key_release(app, e.key)

TwinEvents ==
  { [name |-> "mouse_press", key |-> ""], [name |-> "mouse_release", key |-> ""],
    [name |-> "key_press", key |-> "Space"], [name |-> "key_release", key |-> "Space"] }

TwinLoad ==
  /\ phase = "new"
  /\ ~failed
  /\ \E app \in {load(App)} : SetApp(app)
  /\ twin' = load(twin)
  /\ UNCHANGED << keys_down, ticks >>
  /\ UNCHANGED << isectVars, regVars, bufVars, callVars >>

TwinInput ==
  /\ phase = "running"
  /\ ~failed
  /\ \E e \in TwinEvents :
       /\ \E app \in {Handle(App, e)} : SetApp(app)
       /\ twin' = Handle(twin, e)
  /\ UNCHANGED << keys_down, ticks >>
  /\ UNCHANGED << isectVars, regVars, bufVars, callVars >>

TwinUpdate ==
  /\ Ticking
  /\ ticks < MaxTicks
  /\ \E world_position \in Picks, elapsed \in Elapsed, twin_elapsed \in Elapsed :
       /\ \E app \in {update(App, world_position, elapsed)} : SetApp(app)
       /\ twin' = update(twin, world_position, twin_elapsed)
  /\ ticks' = ticks + 1
  /\ UNCHANGED keys_down
  /\ UNCHANGED << isectVars, regVars, bufVars, callVars >>

SpecTwin == Init /\ [][TwinLoad \/ TwinInput \/ TwinUpdate]_vars

\* a downward translate call of the log collided: the player landed
Landed(log) ==
  \E k \in 1..Len(log) :
    /\ log[k].v.y < 0
    /\ log[k].after.camera_position = log[k].before.camera_position

\* update() during a jump; ticks counts the ticks in a row that began and
\* ended with jumping set and in which the player did not land
HeldTick ==
  /\ Ticking
  /\ \E world_position \in Picks :
       \E app \in {update(App, world_position, elapsed) : elapsed \in Elapsed} :
         /\ SetApp(app)
         /\ ticks' = IF jumping /\ app.jumping /\ ~Landed(app.translations)
                     THEN ticks + 1 ELSE 0
  /\ UNCHANGED << keys_down, twin >>
  /\ UNCHANGED << isectVars, regVars, bufVars, callVars >>

\* the space bar let go: the count starts again
HeldRelease ==
  /\ phase = "running"
  /\ ~failed
  /\ \E app \in {key_release(App, "Space")} : SetApp(app)
  /\ ticks' = 0
  /\ UNCHANGED << keys_down, twin >>
  /\ UNCHANGED << isectVars, regVars, bufVars, callVars >>

\* A jump that is held: the space bar and the ticks, counted.
NextHeld == Load \/ JumpPress \/ HeldRelease \/ HeldTick

SpecHeld == Init /\ [][NextHeld]_vars

\* The player alone: the space bar and the ticks, no block is deleted.
NextJump == Load \/ JumpPress \/ JumpRelease \/ Update

SpecJump == Init /\ [][NextJump]_vars

\* The view alone: the arrow keys after load().
NextRotate == Load \/ RotateLateral \/ RotateVertical

SpecRotate == Init /\ [][NextRotate]_vars

\* the accumulated vertical rotation, steps of 3.14/12 rad, lies strictly
\* between -90 and +90 degrees (pi/2 is 1.570796 rad)
InsideRightAngle(steps) ==
  /\ steps * 3140000 < 12 * 1570796
  /\ steps * 3140000 > -(12 * 1570796)

\* C16: in every state reachable by any sequence of rotate_vertical
\* requests the accumulated vertical rotation lies strictly between -90
\* and +90 degrees.
C16_PitchInRange == InsideRightAngle(rotation_matrix.vertical)

\* C17: a rotate_vertical request whose result would fall outside the open
\* interval (-90, +90) degrees changes nothing of the rotation state and
\* raises no error: no step takes the vertical rotation to a value outside
\* the interval, nor fails in trying.
C17_OutOfRangeDiscarded ==
  [][ ~InsideRightAngle(rotation_matrix'.vertical) =>
        /\ rotation_matrix' = rotation_matrix
        /\ lateral_rotation' = lateral_rotation
        /\ failed' = failed
    ]_vars

(***************************************************************************)
(* The player in motion.  Walking brings the player to any place of the    *)
(* world at walking speed; the ticks are explored from places next to the  *)
(* loaded blocks, with no movement key held.                               *)
(***************************************************************************)
\* what load() leaves in the three buffers
LoadedBuffers ==
  make_world_render_data(World, 0,
    [world_triangles |-> GLBuffer_new(Len(World) * TRIANGLE_VERTICES_PER_BLOCK),
     outlines |-> GLBuffer_new(Len(World) * LINE_VERTICES_PER_BLOCK),
     selection_triangles |-> GLBuffer_new(Len(World) * TRIANGLE_VERTICES_PER_BLOCK),
     failed |-> FALSE])

\* on the ground blocks, above them where load() puts the camera, beside
\* them in x and in z, before the front wall, under the low dirt block
MovePositions ==
  { Vector3(0, 3020, 10000), Vector3(400, 3020, 9400), Vector3(0, 4000, 10000),
    Vector3(1100, 2500, 10000), Vector3(0, 2500, 11600),
    Vector3(0, 3020, -30400), Vector3(2400, 5900, -200) }

\* the speeds one tick of walking and of falling or jumping gives
MoveSpeeds ==
  { Vector3(x, y, z) : x \in {-140, 0, 140}, y \in {-99, 0, 198}, z \in {-140, 0, 140} }

\* the player set down in the loaded world, jumping or not as Jumps allows
InitMoveWith(Jumps) ==
  /\ IsectIdle
  /\ RegistryInit
  /\ BufferInit
  /\ CallIdle
  /\ phase = "running"
  /\ failed = FALSE
  /\ world_data = World
  /\ world_triangles = LoadedBuffers.world_triangles
  /\ outlines = LoadedBuffers.outlines
  /\ selection_triangles = LoadedBuffers.selection_triangles
  /\ is_mouse_pressed = FALSE
  /\ block_index = None
  /\ translations = <<>>
  /\ camera_position \in
       {c \in MovePositions : FirstHit(construct_player(c), World, 0) = None}
  /\ camera_speed \in MoveSpeeds
  /\ jump_fuel \in {0, MAX_JUMP_FUEL - 1}
  /\ jumping \in Jumps
  /\ camera_accel = (IF jumping THEN Vector3(0, 200, 0) ELSE Vector3(0, -100, 0))
  /\ lateral_rotation = 0
  /\ rotation_matrix = Matrix4_identity
  /\ event = [name |-> "load", key |-> ""]
  /\ RunInit

InitMove == InitMoveWith({FALSE})

SpecMove == InitMove /\ [][Update]_vars

\* the same with the space bar down or up as the ticks begin
InitMoveJump == InitMoveWith(BOOLEAN)

SpecMoveJump == InitMoveJump /\ [][Update]_vars

\* C11: in every state reachable by any interleaving of jump presses, jump
\* releases and update ticks, 0 <= jump_fuel <= MAX_JUMP_FUEL.
C11_FuelInRange == jump_fuel >= 0 /\ jump_fuel <= MAX_JUMP_FUEL

\* a jump has used up its fuel in the air and is still held: the next tick
\* finds jumping set and no fuel left
C11_Witness ==
  /\ jumping
  /\ jump_fuel = 0
  /\ camera_speed.y > 0
  /\ camera_position.y > 4000


(***************************************************************************)
(* Entities, ids and slots in main.rs.  A block has no id field: the id of *)
(* a block is the index make_world_render_data enumerated it under, which  *)
(* selection_color encodes into its selection record.  The slot of a block *)
(* is its index in world_data, which is also the index of its record in    *)
(* each of the three buffers.                                              *)
(***************************************************************************)
block_id(block) == CHOOSE i \in 0..(Len(World) - 1) : World[i + 1] = block

\* slot -> id
index_to_id(wd) == [i \in 0..(Len(wd) - 1) |-> block_id(wd[i + 1])]

\* id -> slot, by the same first-match search block_at_screen uses
RECURSIVE find_id(_, _, _)
find_id(wd, id, i) ==
  IF i >= Len(wd) THEN None
  ELSE IF block_id(wd[i + 1]) = id THEN i
  ELSE find_id(wd, id, i + 1)

id_to_index(wd, id) == find_id(wd, id, 0)

MappedIds(wd) == {block_id(wd[k]) : k \in 1..Len(wd)}

Slots(wd) == 0..(Len(wd) - 1)

\* the id a selection record encodes: the inverse of selection_color
DecodeColor(c) == (c[1] \div 1000) * 65536 + (c[2] \div 1000) * 256 + (c[3] \div 1000) - 1

SelectionIds ==
  {DecodeColor(Record(selection_triangles, TRIANGLE_VERTICES_PER_BLOCK, i)[1].color) :
     i \in 0..((selection_triangles.length \div TRIANGLE_VERTICES_PER_BLOCK) - 1)}

C2_EqualLengths ==
  phase = "running" =>
    /\ world_triangles.length = Len(world_data) * TRIANGLE_VERTICES_PER_BLOCK
    /\ outlines.length = Len(world_data) * LINE_VERTICES_PER_BLOCK
    /\ selection_triangles.length = Len(world_data) * TRIANGLE_VERTICES_PER_BLOCK

\* a removal has just happened and blocks are left
C2_Witness ==
  /\ block_index # None
  /\ Len(world_data) = Len(World) - 2
  /\ outlines.length = (Len(World) - 2) * LINE_VERTICES_PER_BLOCK

\* C3: in every reachable state the record at slot i of each buffer is the
\* record generated for the entity index_to_id[i].
C3_SameOrder ==
  phase = "running" =>
    \A i \in Slots(world_data) :
      LET block == world_data[i + 1] IN
      /\ Record(world_triangles, TRIANGLE_VERTICES_PER_BLOCK, i)
           = to_colored_triangles(block)
      /\ Record(outlines, LINE_VERTICES_PER_BLOCK, i) = to_outlines(block)
      /\ Record(selection_triangles, TRIANGLE_VERTICES_PER_BLOCK, i)
           = to_triangles(block, selection_color(index_to_id(world_data)[i]))

\* two swaps have happened: no remaining block is in the slot it was loaded into
C3_Witness ==
  /\ phase = "running"
  /\ Len(world_data) = 2
  /\ \A i \in Slots(world_data) : index_to_id(world_data)[i] # i

\* C4: removing an entity that is not in the last slot moves the last slot's
\* entity into the removed slot, in world_data and in all three buffers,
\* shrinks every buffer by one record and leaves every other slot alone
\* (and glw.rs's swap_remove leaves the same buffers as main.rs's).
C4_SwapRemove ==
  [][ (block_index' # None /\ block_index' # Len(world_data) - 1) =>
        LET slot == block_index'
            last_slot == Len(world_data) - 1
            moved == index_to_id(world_data)[last_slot]
        IN  /\ Len(world_data') = Len(world_data) - 1
            /\ index_to_id(world_data')[slot] = moved
            /\ id_to_index(world_data', moved) = slot
            /\ Record(world_triangles', TRIANGLE_VERTICES_PER_BLOCK, slot)
                 = Record(world_triangles, TRIANGLE_VERTICES_PER_BLOCK, last_slot)
            /\ Record(outlines', LINE_VERTICES_PER_BLOCK, slot)
                 = Record(outlines, LINE_VERTICES_PER_BLOCK, last_slot)
            /\ Record(selection_triangles', TRIANGLE_VERTICES_PER_BLOCK, slot)
                 = Record(selection_triangles, TRIANGLE_VERTICES_PER_BLOCK, last_slot)
            /\ world_triangles'.length
                 = world_triangles.length - TRIANGLE_VERTICES_PER_BLOCK
            /\ outlines'.length = outlines.length - LINE_VERTICES_PER_BLOCK
            /\ selection_triangles'.length
                 = selection_triangles.length - TRIANGLE_VERTICES_PER_BLOCK
            /\ glw_swap_remove(world_triangles, TRIANGLE_VERTICES_PER_BLOCK, slot)
                 = [failed |-> FALSE, buf |-> world_triangles']
            /\ glw_swap_remove(outlines, LINE_VERTICES_PER_BLOCK, slot)
                 = [failed |-> FALSE, buf |-> outlines']
            /\ glw_swap_remove(selection_triangles, TRIANGLE_VERTICES_PER_BLOCK, slot)
                 = [failed |-> FALSE, buf |-> selection_triangles']
            /\ \A t \in 0..(last_slot - 1) :
                 t # slot =>
                   /\ world_data'[t + 1] = world_data[t + 1]
                   /\ Record(world_triangles', TRIANGLE_VERTICES_PER_BLOCK, t)
                        = Record(world_triangles, TRIANGLE_VERTICES_PER_BLOCK, t)
                   /\ Record(outlines', LINE_VERTICES_PER_BLOCK, t)
                        = Record(outlines, LINE_VERTICES_PER_BLOCK, t)
                   /\ Record(selection_triangles', TRIANGLE_VERTICES_PER_BLOCK, t)
                        = Record(selection_triangles, TRIANGLE_VERTICES_PER_BLOCK, t)
    ]_vars

\* the first two loaded blocks were alone in the world and the first of them
\* has just been removed: the second now sits in slot 0
C4_Witness ==
  /\ block_index = 0
  /\ world_data = << World[2] >>
  /\ id_to_index(world_data, 1) = 0

\* C5: removing the entity in the last slot only truncates: every buffer
\* shrinks by one record, the buffer memory is left as it was, the last
\* mapping entry is dropped and every other slot is unchanged (and glw.rs's
\* swap_remove, which returns before any copy, leaves the same buffers).
C5_RemoveLast ==
  [][ (block_index' # None /\ block_index' = Len(world_data) - 1) =>
        /\ world_data' = SubSeq(world_data, 1, Len(world_data) - 1)
        /\ world_triangles'.length
             = world_triangles.length - TRIANGLE_VERTICES_PER_BLOCK
        /\ outlines'.length = outlines.length - LINE_VERTICES_PER_BLOCK
        /\ selection_triangles'.length
             = selection_triangles.length - TRIANGLE_VERTICES_PER_BLOCK
        /\ world_triangles'.data = world_triangles.data
        /\ outlines'.data = outlines.data
        /\ selection_triangles'.data = selection_triangles.data
        /\ glw_swap_remove(world_triangles, TRIANGLE_VERTICES_PER_BLOCK, block_index')
             = [failed |-> FALSE, buf |-> world_triangles']
        /\ glw_swap_remove(outlines, LINE_VERTICES_PER_BLOCK, block_index')
             = [failed |-> FALSE, buf |-> outlines']
        /\ glw_swap_remove(selection_triangles, TRIANGLE_VERTICES_PER_BLOCK, block_index')
             = [failed |-> FALSE, buf |-> selection_triangles']
    ]_vars

\* the last slot has just been removed and the slots before it are those loaded
C5_Witness ==
  /\ block_index = Len(World) - 1
  /\ world_data = SubSeq(World, 1, Len(World) - 1)

\* C6: after every completed load or removal the blocks of the registry
\* (world_data) and the blocks that own a buffer slot are the same set.
C6_Lockstep ==
  phase = "running" => MappedIds(world_data) = SelectionIds

\* world and buffers were filled by load() and a removal has emptied a slot
C6_Witness ==
  /\ phase = "running"
  /\ Len(world_data) = Len(World) - 1
  /\ Cardinality(SelectionIds) = Len(World) - 1
  /\ block_index # None

\* C19: blocks are materialized in strictly increasing id order, none
\* skipped and none loaded twice: as long as nothing has been removed, slot
\* i of world_data and of each buffer holds the block of id i, and there
\* are exactly as many records as blocks.
C19_LoadInIdOrder ==
  (phase = "running" /\ Len(world_data) = Len(World)) =>
    /\ \A i \in 0..(Len(World) - 1) :
         /\ world_data[i + 1] = World[i + 1]
         /\ DecodeColor(Record(selection_triangles, TRIANGLE_VERTICES_PER_BLOCK, i)[1].color) = i
         /\ Record(selection_triangles, TRIANGLE_VERTICES_PER_BLOCK, i)
              = to_triangles(World[i + 1], selection_color(i))
         /\ Record(world_triangles, TRIANGLE_VERTICES_PER_BLOCK, i)
              = to_colored_triangles(World[i + 1])
         /\ Record(outlines, LINE_VERTICES_PER_BLOCK, i) = to_outlines(World[i + 1])
    /\ selection_triangles.length = Len(World) * TRIANGLE_VERTICES_PER_BLOCK
    /\ world_triangles.length = Len(World) * TRIANGLE_VERTICES_PER_BLOCK
    /\ outlines.length = Len(World) * LINE_VERTICES_PER_BLOCK

\* load() has filled the buffers and nothing has been removed: the last
\* slot holds the block with the highest id
C19_Witness ==
  /\ phase = "running"
  /\ ~failed
  /\ Len(world_data) = Len(World)
  /\ Len(World) >= 3
  /\ DecodeColor(Record(selection_triangles, TRIANGLE_VERTICES_PER_BLOCK,
                         Len(World) - 1)[1].color) = Len(World) - 1
  /\ is_mouse_pressed


(***************************************************************************)
(* intersect on its own: every pair of boxes with corners in 0..MaxCoord,  *)
(* low corner below or at the high corner on every axis.                   *)
(***************************************************************************)
Coords == 0..MaxCoord

Boxes ==
  {Block_new(Vector3(lx, ly, lz), Vector3(hx, hy, hz), Stone) :
     lx \in Coords, ly \in Coords, lz \in Coords,
     hx \in Coords, hy \in Coords, hz \in Coords}

WellFormed(b) ==
  /\ b.low_corner.x <= b.high_corner.x
  /\ b.low_corner.y <= b.high_corner.y
  /\ b.low_corner.z <= b.high_corner.z

Pending == [tag |-> "Pending", stop |-> VZero]

InitIntersect ==
  /\ AppInit
  /\ RegistryInit
  /\ BufferInit
  /\ CallIdle
  /\ RunInit
  /\ arg_b1 \in {b \in Boxes : WellFormed(b)}
  /\ arg_b2 \in {b \in Boxes : WellFormed(b)}
  /\ result = Pending

IntersectCall ==
  /\ result = Pending
  /\ result' = intersect(arg_b1, arg_b2)
  /\ UNCHANGED << arg_b1, arg_b2 >>
  /\ UNCHANGED << appVars, regVars, bufVars, callVars, runVars >>

SpecIntersect == InitIntersect /\ [][IntersectCall]_vars

\* The classification of section 4.1, for a's interval (al, ah) against b's
\* interval (bl, bh) on one axis.
Contained(al, ah, bl, bh) == al > bl /\ ah <= bh
Overlapping(al, ah, bl, bh) == ah > bl /\ bh > al /\ ~Contained(al, ah, bl, bh)
Disjoint(al, ah, bl, bh) == ~Contained(al, ah, bl, bh) /\ ~Overlapping(al, ah, bl, bh)

ContainedX == Contained(arg_b1.low_corner.x, arg_b1.high_corner.x,
                        arg_b2.low_corner.x, arg_b2.high_corner.x)
ContainedY == Contained(arg_b1.low_corner.y, arg_b1.high_corner.y,
                        arg_b2.low_corner.y, arg_b2.high_corner.y)
ContainedZ == Contained(arg_b1.low_corner.z, arg_b1.high_corner.z,
                        arg_b2.low_corner.z, arg_b2.high_corner.z)
OverlappingX == Overlapping(arg_b1.low_corner.x, arg_b1.high_corner.x,
                            arg_b2.low_corner.x, arg_b2.high_corner.x)
OverlappingY == Overlapping(arg_b1.low_corner.y, arg_b1.high_corner.y,
                            arg_b2.low_corner.y, arg_b2.high_corner.y)
OverlappingZ == Overlapping(arg_b1.low_corner.z, arg_b1.high_corner.z,
                            arg_b2.low_corner.z, arg_b2.high_corner.z)
DisjointX == Disjoint(arg_b1.low_corner.x, arg_b1.high_corner.x,
                      arg_b2.low_corner.x, arg_b2.high_corner.x)
DisjointY == Disjoint(arg_b1.low_corner.y, arg_b1.high_corner.y,
                      arg_b2.low_corner.y, arg_b2.high_corner.y)
DisjointZ == Disjoint(arg_b1.low_corner.z, arg_b1.high_corner.z,
                      arg_b2.low_corner.z, arg_b2.high_corner.z)

\* C9: intersect returns None whenever some axis is Disjoint, and returns
\* Some((1,1,1)) only when all three axes are Contained.
C9_NoneAndAllOnes ==
  result # Pending =>
    /\ (DisjointX \/ DisjointY \/ DisjointZ) => result = NoIntersect
    /\ result = Intersect(Vector3(1, 1, 1)) => (ContainedX /\ ContainedY /\ ContainedZ)

\* a is strictly inside b on x and z and apart from it on y: None
C9_Witness ==
  /\ result = NoIntersect
  /\ ContainedX /\ DisjointY /\ ContainedZ
  /\ arg_b1.high_corner.x < arg_b2.high_corner.x

\* C10: when no axis is Disjoint, intersect returns Some(v) with, on every
\* axis, v = 0 exactly when that axis is Overlapping and v = 1 exactly when
\* it is Contained, whatever the other two axes are.
C10_SlideVector ==
  (result # Pending /\ ~DisjointX /\ ~DisjointY /\ ~DisjointZ) =>
    /\ result.tag = "Intersect"
    /\ result.stop.x \in {0, 1} /\ result.stop.y \in {0, 1} /\ result.stop.z \in {0, 1}
    /\ (result.stop.x = 0) <=> OverlappingX
    /\ (result.stop.x = 1) <=> ContainedX
    /\ (result.stop.y = 0) <=> OverlappingY
    /\ (result.stop.y = 1) <=> ContainedY
    /\ (result.stop.z = 0) <=> OverlappingZ
    /\ (result.stop.z = 1) <=> ContainedZ

\* x and z overlap, y is contained: the slide vector is (0, 1, 0)
C10_Witness ==
  /\ OverlappingX /\ ContainedY /\ OverlappingZ
  /\ result = Intersect(Vector3(0, 1, 0))


(***************************************************************************)
(* Translation attempts, as the claims speak of them.  The candidate       *)
(* bounds of an attempt are the player's bounds moved by v; it collides    *)
(* with a block when no axis of the two is Disjoint, and the slide vector  *)
(* is that of the first such block in slot order.                          *)
(***************************************************************************)
Candidate(t) == construct_player(VAdd(t.before.camera_position, t.v))

DisjointOn(a, b, axis) ==
  Disjoint(a.low_corner[axis], a.high_corner[axis], b.low_corner[axis], b.high_corner[axis])

OverlappingOn(a, b, axis) ==
  Overlapping(a.low_corner[axis], a.high_corner[axis], b.low_corner[axis], b.high_corner[axis])

Axes == {"x", "y", "z"}

CollidesWith(t, k) == \A axis \in Axes : ~DisjointOn(Candidate(t), t.blocks[k], axis)

Collided(t) == \E k \in 1..Len(t.blocks) : CollidesWith(t, k)

FirstCollision(t) ==
  CHOOSE k \in 1..Len(t.blocks) :
    CollidesWith(t, k) /\ \A j \in 1..(k - 1) : ~CollidesWith(t, j)

\* the slide vector marks the axis Overlapping
MarksOverlapping(t, axis) ==
  Collided(t) /\ OverlappingOn(Candidate(t), t.blocks[FirstCollision(t)], axis)

Attempts == {translations[k] : k \in 1..Len(translations)}

\* the attempts of a handler follow one another and end in the present state
Chained ==
  /\ \A k \in 1..(Len(translations) - 1) :
       translations[k + 1].before = translations[k].after
  /\ translations # <<>> =>
       /\ camera_position = translations[Len(translations)].after.camera_position
       /\ jump_fuel = translations[Len(translations)].after.jump_fuel

\* C12: an attempt with v.y < 0 sets jump_fuel to MAX_JUMP_FUEL if it
\* collides and to 0 if it does not; an attempt with v.y >= 0 leaves
\* jump_fuel as it is; and no step of any operation raises jump_fuel unless
\* it makes a downward attempt that collides.
C12_FuelByLanding ==
  [][ /\ \A k \in 1..Len(translations') :
           LET t == translations'[k] IN
           IF t.v.y < 0
           THEN t.after.jump_fuel = IF Collided(t) THEN MAX_JUMP_FUEL ELSE 0
           ELSE t.after.jump_fuel = t.before.jump_fuel
      /\ Chained'
      /\ jump_fuel' > jump_fuel =>
           /\ jump_fuel' = MAX_JUMP_FUEL
           /\ \E k \in 1..Len(translations') :
                translations'[k].v.y < 0 /\ Collided(translations'[k])
    ]_vars

\* the player has come down on a block with no fuel left, and has fuel again
C12_Witness ==
  /\ jump_fuel = MAX_JUMP_FUEL
  /\ \E t \in Attempts :
       t.v.y < 0 /\ Collided(t) /\ t.before.jump_fuel = 0 /\ t.after.jump_fuel = MAX_JUMP_FUEL

\* C13: a downward-only attempt at the current vertical speed that collides
\* leaves the vertical speed zero and the position unchanged.
C13_LandingStops ==
  \A t \in Attempts :
    (/\ t.v.x = 0 /\ t.v.z = 0 /\ t.v.y < 0
     /\ t.v.y = t.before.camera_speed.y
     /\ Collided(t))
    => /\ t.after.camera_speed.y = 0
       /\ t.after.camera_position = t.before.camera_position

\* the player, moving sideways as well, has come down on a block
C13_Witness ==
  \E t \in Attempts :
    /\ t.v.x = 0 /\ t.v.z = 0 /\ t.v.y < 0
    /\ t.v.y = t.before.camera_speed.y
    /\ Collided(t)
    /\ t.before.camera_speed.x # 0
    /\ t.after.camera_speed.y = 0
    /\ camera_position = t.before.camera_position

\* C14 as stated: an attempt that collides leaves the position as it was
\* and zeroes the velocity component on each axis the slide vector marks
\* Overlapping; its other components are unchanged and jump_fuel follows
\* the landing rule.
C14_ZeroesEachMarkedAxis ==
  \A t \in Attempts :
    Collided(t) =>
      /\ t.after.camera_position = t.before.camera_position
      /\ \A axis \in Axes :
           t.after.camera_speed[axis] =
             IF MarksOverlapping(t, axis) THEN 0 ELSE t.before.camera_speed[axis]
      /\ t.after.jump_fuel = IF t.v.y < 0 THEN MAX_JUMP_FUEL ELSE t.before.jump_fuel

\* C14, amended: an attempt that collides leaves the position as it was;
\* it zeroes the velocity component on each axis that the slide vector
\* marks Overlapping and along which the attempt moves, and leaves every
\* other component as it was; jump_fuel follows the landing rule.
C14_CollisionFrame ==
  /\ Chained
  /\ \A t \in Attempts :
       Collided(t) =>
         /\ t.after.camera_position = t.before.camera_position
         /\ \A axis \in Axes :
              t.after.camera_speed[axis] =
                IF MarksOverlapping(t, axis) /\ t.v[axis] # 0
                THEN 0 ELSE t.before.camera_speed[axis]
         /\ t.after.jump_fuel = IF t.v.y < 0 THEN MAX_JUMP_FUEL ELSE t.before.jump_fuel

\* the player, still moving sideways, has come down on a block whose side
\* it overhangs: the vertical speed is gone and the sideways speed is kept
C14_Witness ==
  \E t \in Attempts :
    /\ Collided(t)
    /\ t.v.y < 0
    /\ MarksOverlapping(t, "y") /\ t.after.camera_speed.y = 0
    /\ MarksOverlapping(t, "x") /\ t.v.x = 0
    /\ t.before.camera_speed.x # 0
    /\ t.after.camera_speed.x = t.before.camera_speed.x

\* C15: an attempt by v that collides with no block moves the position by
\* exactly v and leaves all three components of the velocity unchanged.
C15_FreeMove ==
  /\ Chained
  /\ \A t \in Attempts :
       ~Collided(t) =>
         /\ t.after.camera_position = VAdd(t.before.camera_position, t.v)
         /\ t.after.camera_speed = t.before.camera_speed

\* the player has moved freely along x while also moving along y and z
C15_Witness ==
  \E t \in Attempts :
    /\ ~Collided(t)
    /\ t.v.x # 0
    /\ t.before.camera_speed.y # 0 /\ t.before.camera_speed.z # 0
    /\ t.after.camera_position.x = t.before.camera_position.x + t.v.x
    /\ t.blocks # <<>>

\* the blocks an attempt collides with, and the slide vector of one of them:
\* 0 on the axes that are Overlapping, 1 on those that are Contained
Colliding(t) == {k \in 1..Len(t.blocks) : CollidesWith(t, k)}

SlideVector(t, k) ==
  [axis \in Axes |-> IF OverlappingOn(Candidate(t), t.blocks[k], axis) THEN 0 ELSE 1]

\* C35: an attempt that collides with several blocks changes the velocity
\* by v * stop - v for the slide vector stop of the first of them in slot
\* order, once, whatever the other blocks are.
C35_FirstCollisionOnly ==
  \A t \in Attempts :
    Cardinality(Colliding(t)) >= 2 =>
      \A axis \in Axes :
        t.after.camera_speed[axis] =
          t.before.camera_speed[axis]
            + t.v[axis] * SlideVector(t, FirstCollision(t))[axis] - t.v[axis]

\* the player has come down on the edge between two blocks: the attempt
\* collided with both and the vertical speed is gone, not turned round
C35_Witness ==
  \E t \in Attempts :
    /\ Cardinality(Colliding(t)) >= 2
    /\ t.v.y < 0
    /\ t.before.camera_speed.y = t.v.y
    /\ t.after.camera_speed.y = 0
    /\ FirstCollision(t) < Len(t.blocks)


(***************************************************************************)
(* Picking: what the selection buffer says about a slot.                   *)
(***************************************************************************)
\* the selection record at slot i and the record drawn there
SelectionRecord(i) == Record(selection_triangles, TRIANGLE_VERTICES_PER_BLOCK, i)
DrawnRecord(i) == Record(world_triangles, TRIANGLE_VERTICES_PER_BLOCK, i)

\* C34: every vertex of the selection record at a slot encodes the id of
\* the block that is in that slot of world_data, the record covers the
\* triangles drawn at that slot, which are that block's, and the id
\* resolves to that slot.
C34_PickResolves ==
  phase = "running" =>
    \A i \in Slots(world_data) :
      /\ \A k \in 1..TRIANGLE_VERTICES_PER_BLOCK :
           /\ DecodeColor(SelectionRecord(i)[k].color) = block_id(world_data[i + 1])
           /\ SelectionRecord(i)[k].position = DrawnRecord(i)[k].position
      /\ DrawnRecord(i) = to_colored_triangles(world_data[i + 1])
      /\ id_to_index(world_data, DecodeColor(SelectionRecord(i)[1].color)) = i

\* a tick has deleted a block that was not the last one: the selection
\* record at its slot now encodes the id of the block that was moved there
C34_Witness ==
  /\ event.name = "update"
  /\ block_index # None
  /\ block_index < Len(world_data)
  /\ DecodeColor(SelectionRecord(block_index)[1].color) # block_index
  /\ DecodeColor(SelectionRecord(block_index)[1].color)
       = block_id(world_data[block_index + 1])

(***************************************************************************)
(* The update tick, as the claims speak of it.                             *)
(***************************************************************************)
\* the step is an update tick
IsTick == event'.name = "update"

\* C21: in every update tick loading is over before the player moves (the
\* buffers hold one record for each block of the world, and the tick adds
\* no block), the jump fuel is spent before the first translation attempt,
\* every attempt of the tick is tested against the world as it was before
\* the tick, a block the tick deletes included, and the deletion changes the
\* world only after the last attempt.
C21_PhasesInOrder ==
  [][ IsTick =>
        /\ phase = "running"
        /\ outlines.length = Len(world_data) * LINE_VERTICES_PER_BLOCK
        /\ Len(world_data') <= Len(world_data)
        /\ \A k \in 1..Len(translations') : translations'[k].blocks = world_data
        /\ translations' # << >> =>
             /\ translations'[1].before.camera_position = camera_position
             /\ translations'[1].before.jump_fuel =
                  (IF jumping /\ jump_fuel > 0 THEN jump_fuel - 1 ELSE jump_fuel)
        /\ block_index' # None =>
             /\ Len(world_data') = Len(world_data) - 1
             /\ \A k \in 1..Len(translations') :
                  world_data[block_index' + 1] = translations'[k].blocks[block_index' + 1]
    ]_vars

\* a tick has deleted the block the player stood on: the downward attempt of
\* that tick collided with a block that is no longer in the world
C21_Witness ==
  /\ event.name = "update"
  /\ block_index # None
  /\ \E t \in Attempts :
       /\ t.v.y < 0
       /\ Collided(t)
       /\ \A k \in 1..Len(world_data) : world_data[k] # t.blocks[FirstCollision(t)]

\* the step is a press, or a release, of the space bar
IsJumpStart == event' = [name |-> "key_press", key |-> "Space"]
IsJumpRelease == event' = [name |-> "key_release", key |-> "Space"]

\* the upward impulse of a jump, 0.3
Impulse == Vector3(0, 300, 0)

\* the step leaves the player as it is
PlayerUnchanged ==
  UNCHANGED << jumping, camera_accel, camera_speed, camera_position, jump_fuel >>

\* C23: a jump-start while not jumping sets jumping and adds the impulse, a
\* jump-start while jumping changes nothing; a release while jumping clears
\* jumping and removes the impulse, a release while not jumping changes
\* nothing; a tick that begins with jumping set and no fuel clears jumping
\* and removes the impulse; nothing else changes jumping.
C23_JumpingChanges ==
  [][ /\ IsJumpStart =>
           IF ~jumping
           THEN jumping' /\ camera_accel' = VAdd(camera_accel, Impulse)
           ELSE PlayerUnchanged
      /\ IsJumpRelease =>
           IF jumping
           THEN ~jumping' /\ camera_accel' = VSub(camera_accel, Impulse)
           ELSE PlayerUnchanged
      /\ IsTick =>
           IF jumping /\ jump_fuel = 0
           THEN ~jumping' /\ camera_accel' = VSub(camera_accel, Impulse)
           ELSE jumping' = jumping /\ camera_accel' = camera_accel
      /\ ~(IsJumpStart \/ IsJumpRelease \/ IsTick) => jumping' = jumping
    ]_vars

\* a tick has left the player rising with the jump off and no fuel: the jump
\* ended in the air
C23_Witness ==
  /\ event.name = "update"
  /\ ~jumping
  /\ jump_fuel = 0
  /\ camera_accel.y = -100
  /\ camera_speed.y > 0

\* the fuel a tick that begins in this state leaves after its first step
FuelAfterStart == IF jumping /\ jump_fuel > 0 THEN jump_fuel - 1 ELSE jump_fuel

\* C24: the first translation attempt of a tick finds jump_fuel one lower
\* than the tick began with if it began jumping with fuel left, and as the
\* tick began with otherwise; a tick that makes no downward attempt ends
\* with that value.
C24_FuelSpentPerTick ==
  [][ IsTick =>
        /\ translations' # << >> => translations'[1].before.jump_fuel = FuelAfterStart
        /\ (\A k \in 1..Len(translations') : translations'[k].v.y >= 0)
             => jump_fuel' = FuelAfterStart
    ]_vars

\* a tick of a jump has spent one unit of fuel while the player rises
C24_Witness ==
  /\ event.name = "update"
  /\ jumping
  /\ jump_fuel = MAX_JUMP_FUEL - 1
  /\ \E t \in Attempts : t.v.y > 0 /\ t.before.jump_fuel = MAX_JUMP_FUEL - 1

\* C30: with no walking key held the vertical acceleration is that of
\* App::new, -0.1, plus the impulse once if jumping is set and not at all
\* if it is not.
C30_ImpulseOnce ==
  camera_accel = IF jumping THEN VAdd(Vector3(0, -100, 0), Impulse)
                            ELSE Vector3(0, -100, 0)

\* the space bar has been released in the air after a landing: the fuel is
\* partly spent and the impulse is out of the acceleration
C30_Witness ==
  /\ event = [name |-> "key_release", key |-> "Space"]
  /\ ~jumping
  /\ camera_accel.y = -100
  /\ jump_fuel > 0 /\ jump_fuel < MAX_JUMP_FUEL
  /\ camera_speed.y > 0

\* the axes in the order update() attempts them
AxisOrder == << "x", "y", "z" >>

\* the axes along which the player moves, in that order
MovingAxes == SelectSeq(AxisOrder, LAMBDA axis : camera_speed[axis] # 0)

\* C26: a tick makes one attempt for each axis along which the velocity is
\* not zero, in the order x, y, z, each along its axis alone and each
\* starting where the one before it ended; an attempt that does not collide
\* moves the player by its v and one that collides leaves the player in
\* place, whatever the other attempts of the tick do, and the tick ends
\* where its last attempt ended.
C26_AxisByAxis ==
  [][ IsTick =>
        /\ Len(translations') = Len(MovingAxes)
        /\ \A k \in 1..Len(translations') :
             LET t == translations'[k] IN
             /\ t.v = [axis \in Axes |->
                         IF axis = MovingAxes[k] THEN camera_speed[axis] ELSE 0]
             /\ t.before.camera_position =
                  (IF k = 1 THEN camera_position
                            ELSE translations'[k - 1].after.camera_position)
             /\ t.after.camera_position =
                  (IF \E b \in 1..Len(world_data) :
                        \A axis \in Axes :
                          ~DisjointOn(construct_player(VAdd(t.before.camera_position, t.v)),
                                      world_data[b], axis)
                   THEN t.before.camera_position
                   ELSE VAdd(t.before.camera_position, t.v))
        /\ camera_position' =
             (IF translations' = << >> THEN camera_position
              ELSE translations'[Len(translations')].after.camera_position)
    ]_vars

\* a tick has moved the player along x, been stopped along y and moved the
\* player along z
C26_Witness ==
  /\ event.name = "update"
  /\ Len(translations) = 3
  /\ ~Collided(translations[1]) /\ Collided(translations[2]) /\ ~Collided(translations[3])
  /\ camera_position.x = translations[1].before.camera_position.x + translations[1].v.x
  /\ camera_position.y = translations[1].before.camera_position.y
  /\ camera_position.z = translations[1].before.camera_position.z + translations[3].v.z

\* what the keys of S add to the acceleration while they are held: 0.2 along
\* A: -x, D: +x, LShift: -y, W: -z, S: +z
RECURSIVE HeldContribution(_)
HeldContribution(S) ==
  IF S = {} THEN VZero
  ELSE LET key == CHOOSE k \in S : TRUE
           d == CASE key = "A" -> Vector3(-200, 0, 0)
                  [] key = "D" -> Vector3(200, 0, 0)
                  [] key = "LShift" -> Vector3(0, -200, 0)
                  [] key = "W" -> Vector3(0, 0, -200)
                  [] key = "S" -> Vector3(0, 0, 200)
       IN  VAdd(d, HeldContribution(S \ {key}))

SpeedAfterAttempts ==
  IF translations' = << >> THEN camera_speed
  ELSE translations'[Len(translations')].after.camera_speed

\* the friction of update()
Friction(v) == Vector3(Scale(v.x, 7, 10), Scale(v.y, 99, 100), Scale(v.z, 7, 10))

\* C31: the tick that follows a jump-start with no fuel clears jumping,
\* takes the impulse out of the acceleration and integrates the
\* acceleration without it, whatever the attempts of the tick leave in
\* jump_fuel; the tick leaves the player no faster upwards than it was.
C31_EmptyJumpCancelled ==
  [][ ( /\ IsTick
        /\ event = [name |-> "key_press", key |-> "Space"]
        /\ jumping
        /\ jump_fuel = 0 ) =>
        /\ ~jumping'
        /\ camera_accel' = VSub(camera_accel, Impulse)
        /\ camera_speed' =
             Friction(VAdd(SpeedAfterAttempts,
                           from_axis_angle_y(lateral_rotation, VSub(camera_accel, Impulse))))
        /\ camera_speed'.y <= 0 \/ camera_speed'.y < camera_speed.y
    ]_vars

\* the space bar has started a jump with no fuel in a fall, one tick above
\* the ground: the downward attempt of the tick that follows lands and
\* refills the fuel
C31_Witness ==
  /\ event = [name |-> "key_press", key |-> "Space"]
  /\ jumping
  /\ jump_fuel = 0
  /\ Ticking
  /\ camera_speed.y < 0
  /\ FirstHit(construct_player(VAdd(camera_position, Vector3(0, camera_speed.y, 0))),
              world_data, 0) # None

\* C32: a jump never lasts MAX_JUMP_FUEL + 1 ticks in a row without a
\* landing: at most MAX_JUMP_FUEL ticks in a row begin and end with jumping
\* set while no downward attempt collides, the space bar released or not.
C32_HeldJumpEnds == ticks <= MAX_JUMP_FUEL

\* a jump has been held through MAX_JUMP_FUEL ticks from the ground: the
\* fuel is spent, jumping is still set and the next tick ends the jump
C32_Witness ==
  /\ event.name = "update"
  /\ jumping
  /\ jump_fuel = 0
  /\ ticks = MAX_JUMP_FUEL

\* C36: every attempt of a tick is along one axis and leaves the velocity
\* components of the two other axes as they were, whether it collides or
\* not; and the tick leaves jumping and the acceleration as its first step,
\* which comes before the attempts, left them.
C36_OtherAxesKept ==
  [][ IsTick =>
        /\ \A k \in 1..Len(translations') :
             LET t == translations'[k] IN
             /\ Cardinality({axis \in Axes : t.v[axis] # 0}) = 1
             /\ \A axis \in Axes :
                  t.v[axis] = 0 => t.after.camera_speed[axis] = t.before.camera_speed[axis]
        /\ jumping' = (jumping /\ jump_fuel > 0)
        /\ camera_accel' = IF jumping /\ jump_fuel = 0
                           THEN VSub(camera_accel, Impulse) ELSE camera_accel
    ]_vars

\* the player, moving sideways with the jump on, has come down on a block:
\* the attempt along y collided, the jump is still on and the attempt left
\* the sideways speed as it was
C36_Witness ==
  /\ event.name = "update"
  /\ jumping
  /\ \E t \in Attempts :
       /\ t.v.y < 0
       /\ Collided(t)
       /\ t.after.camera_speed.y = 0
       /\ t.before.camera_speed.x # 0
       /\ t.after.camera_speed.x = t.before.camera_speed.x

\* the three buffers
Buffers == << world_triangles, outlines, selection_triangles >>

\* C37: a tick takes at most one block out of world_data; it takes one out
\* only if the left button is down as the tick runs and block_at_screen
\* finds a block that is in world_data, and then each buffer loses one
\* record; with the button up the tick leaves world_data and the three
\* buffers as they were.
C37_DeletesAtMostOne ==
  [][ IsTick =>
        /\ Len(world_data') >= Len(world_data) - 1
        /\ Len(world_data') <= Len(world_data)
        /\ Len(world_data') < Len(world_data) =>
             /\ is_mouse_pressed
             /\ block_index' \in Slots(world_data)
             /\ \E world_position \in PickPoints :
                  /\ contains_point(world_data[block_index' + 1], world_position)
                  /\ block_at_screen(world_data, world_position) = block_index'
             /\ world_triangles'.length
                  = world_triangles.length - TRIANGLE_VERTICES_PER_BLOCK
             /\ outlines'.length = outlines.length - LINE_VERTICES_PER_BLOCK
             /\ selection_triangles'.length
                  = selection_triangles.length - TRIANGLE_VERTICES_PER_BLOCK
        /\ Len(world_data') = Len(world_data) =>
             /\ block_index' = None
             /\ UNCHANGED << world_data, Buffers >>
        /\ ~is_mouse_pressed => UNCHANGED << world_data, Buffers >>
    ]_vars

\* a tick with the button down has taken the first block out of the whole
\* world: one block and one record of each buffer less
C37_Witness ==
  /\ event.name = "update"
  /\ is_mouse_pressed
  /\ block_index = 0
  /\ Len(world_data) = Len(World) - 1
  /\ selection_triangles.length = (Len(World) - 1) * TRIANGLE_VERTICES_PER_BLOCK

(***************************************************************************)
(* The Entity Registry of section 4.2 (main.rs keeps bounds and type in    *)
(* one Vec<Block> and has no id counter; the registry is modelled from its *)
(* description): a monotonic id counter and two tables keyed by id, the    *)
(* bounds ("physics") and the block types.                                 *)
(***************************************************************************)
\* allocate_id: return the counter's value and consume it
allocate_id(reg) == [id |-> reg.next_id, reg |-> [reg EXCEPT !.next_id = @ + 1]]

Restrict(f, S) == [k \in S |-> f[k]]

\* insert(id, bounds, block_type): record both tables
registry_insert(reg, id, bounds, block_type) ==
  [reg EXCEPT
     !.physics = [k \in (DOMAIN reg.physics) \cup {id} |->
                    IF k = id THEN bounds ELSE reg.physics[k]],
     !.blocks = [k \in (DOMAIN reg.blocks) \cup {id} |->
                   IF k = id THEN block_type ELSE reg.blocks[k]]]

\* A variant that erases the bounds and leaves the block type behind.
registry_remove_BoundsOnly(reg, id) ==
  [reg EXCEPT !.physics = Restrict(reg.physics, (DOMAIN reg.physics) \ {id})]

\* A variant that hands the erased id back to the counter.
registry_remove_Recycle(reg, id) ==
  [reg EXCEPT
     !.next_id = id,
     !.physics = Restrict(reg.physics, (DOMAIN reg.physics) \ {id}),
     !.blocks = Restrict(reg.blocks, (DOMAIN reg.blocks) \ {id})]

\* remove(id): erase both tables
registry_remove(reg, id) ==
  [reg EXCEPT
     !.physics = Restrict(reg.physics, (DOMAIN reg.physics) \ {id}),
     !.blocks = Restrict(reg.blocks, (DOMAIN reg.blocks) \ {id})]

Allocated == {registry_log[k].id : k \in {j \in 1..Len(registry_log) : registry_log[j].op = "allocate_id"}}
Removed == {registry_log[k].id : k \in {j \in 1..Len(registry_log) : registry_log[j].op = "remove"}}

\* the bounds of scenario A
RegistryBounds ==
  { [low_corner |-> Vector3(0, 0, 0), high_corner |-> Vector3(1000, 1000, 1000)],
    [low_corner |-> Vector3(5000, 5000, 5000), high_corner |-> Vector3(6000, 6000, 6000)] }

RegistryAllocate ==
  /\ ~registry_failed
  /\ Len(SelectSeq(registry_log, LAMBDA e : e.op = "allocate_id")) < MaxIds
  /\ LET r == allocate_id(registry)
     IN  /\ registry' = r.reg
         /\ registry_log' = Append(registry_log, [op |-> "allocate_id", id |-> r.id])
  /\ UNCHANGED << registry_failed, loader >>
  /\ UNCHANGED << appVars, isectVars, bufVars, callVars, runVars >>

\* a block is inserted once, when the loader materializes it
RegistryInsert ==
  /\ ~registry_failed
  /\ \E id \in Allocated \ ((DOMAIN registry.physics) \cup Removed) :
       \E bounds \in RegistryBounds, block_type \in {Grass, Dirt, Stone} :
         registry' = registry_insert(registry, id, bounds, block_type)
  /\ UNCHANGED << registry_log, registry_failed, loader >>
  /\ UNCHANGED << appVars, isectVars, bufVars, callVars, runVars >>

\* removing an id that is present erases it; a missing id is fatal
RegistryRemove ==
  /\ ~registry_failed
  /\ \E id \in Allocated :
       IF id \in DOMAIN registry.physics
       THEN /\ registry' = registry_remove(registry, id)
            /\ registry_log' = Append(registry_log, [op |-> "remove", id |-> id])
            /\ UNCHANGED registry_failed
       ELSE /\ registry_failed' = TRUE
            /\ UNCHANGED << registry, registry_log >>
  /\ UNCHANGED loader
  /\ UNCHANGED << appVars, isectVars, bufVars, callVars, runVars >>

SpecRegistry ==
  Init /\ [][RegistryAllocate \/ RegistryInsert \/ RegistryRemove]_vars

\* C7: in every reachable state the bounds table and the block-type table
\* have the same key set.
C7_SameKeys == DOMAIN registry.physics = DOMAIN registry.blocks

\* ids have been inserted and one of them has been removed again
C7_Witness ==
  /\ Removed # {}
  /\ DOMAIN registry.physics # {}
  /\ DOMAIN registry.blocks # {}

AllocatedSeq == SelectSeq(registry_log, LAMBDA e : e.op = "allocate_id")

\* C8: allocate_id returns strictly increasing ids starting at 2; no id is
\* returned twice, also not after the entity that held it was removed.
C8_MonotonicIds ==
  /\ AllocatedSeq # <<>> => AllocatedSeq[1].id = 2
  /\ \A i, j \in 1..Len(AllocatedSeq) :
       i < j => AllocatedSeq[i].id < AllocatedSeq[j].id
  /\ \A i \in 1..Len(AllocatedSeq) : AllocatedSeq[i].id \notin {0, 1}

\* an id was allocated after an entity had been removed
C8_Witness ==
  \E i, j \in 1..Len(registry_log) :
    /\ i < j
    /\ registry_log[i].op = "remove"
    /\ registry_log[j].op = "allocate_id"


(***************************************************************************)
(* The Incremental Loader of section 4.4 (main.rs builds all of its render *)
(* data in one call from load() and has no loader; it is modelled from its *)
(* description).  World generation allocates an id for every block it      *)
(* places and queues the block's descriptor; next_block_id is the          *)
(* registry's id counter.  Each update tick materializes the next blocks   *)
(* in the queue, at most LOAD_SPEED of them: the Registry records the      *)
(* block and the Buffer Index Map appends a slot for it.                   *)
(***************************************************************************)
\* the batch size (4096 in section 4.4)
LOAD_SPEED == 2

next_block_id(reg) == reg.next_id

\* A variant of the loop that does not count the blocks it has processed.
loader_loop_NoLimit(st, processed) ==
  LET ids == st.loader.next_load_id .. (next_block_id(st.registry) - 1)
  IN  [registry |->
         [st.registry EXCEPT
            !.physics = [k \in (DOMAIN st.registry.physics) \cup ids |->
                           IF k \in ids THEN st.loader.queue[k].bounds
                                        ELSE st.registry.physics[k]],
            !.blocks = [k \in (DOMAIN st.registry.blocks) \cup ids |->
                          IF k \in ids THEN st.loader.queue[k].block_type
                                       ELSE st.registry.blocks[k]]],
       loader |->
         [st.loader EXCEPT
            !.next_load_id = next_block_id(st.registry),
            !.index_to_id = st.loader.index_to_id
                              \o [k \in 1..Cardinality(ids) |-> st.loader.next_load_id + k - 1]]]

\* A variant of the loop that leaves the last block of the queue waiting.
RECURSIVE loader_loop_LeavesLast(_, _)
loader_loop_LeavesLast(st, processed) ==
  IF st.loader.next_load_id + 1 < next_block_id(st.registry) /\ processed < LOAD_SPEED
  THEN LET id == st.loader.next_load_id
           block == st.loader.queue[id]
       IN  loader_loop_LeavesLast(
             [registry |-> registry_insert(st.registry, id, block.bounds, block.block_type),
              loader |-> [st.loader EXCEPT
                            !.next_load_id = id + 1,
                            !.index_to_id = Append(st.loader.index_to_id, id)]],
             processed + 1)
  ELSE st

\* the loop of one tick: while next_load_id < next_block_id and fewer than
\* LOAD_SPEED blocks have been processed, materialize the block at
\* next_load_id and advance next_load_id
RECURSIVE loader_loop(_, _)
loader_loop(st, processed) ==
  IF st.loader.next_load_id < next_block_id(st.registry) /\ processed < LOAD_SPEED
  THEN LET id == st.loader.next_load_id
           block == st.loader.queue[id]
       IN  loader_loop(
             [registry |-> registry_insert(st.registry, id, block.bounds, block.block_type),
              loader |-> [st.loader EXCEPT
                            !.next_load_id = id + 1,
                            !.index_to_id = Append(st.loader.index_to_id, id)]],
             processed + 1)
  ELSE st

\* world generation places a block: an id is allocated and the descriptor queued
LoaderEnqueue ==
  /\ ~registry_failed
  /\ Len(SelectSeq(registry_log, LAMBDA e : e.op = "allocate_id")) < MaxIds
  /\ \E bounds \in RegistryBounds, block_type \in {Grass, Dirt, Stone} :
       LET r == allocate_id(registry)
       IN  /\ registry' = r.reg
           /\ registry_log' = Append(registry_log, [op |-> "allocate_id", id |-> r.id])
           /\ loader' = [loader EXCEPT
                           !.queue = [k \in (DOMAIN loader.queue) \cup {r.id} |->
                                        IF k = r.id
                                        THEN [bounds |-> bounds, block_type |-> block_type]
                                        ELSE loader.queue[k]]]
  /\ UNCHANGED registry_failed
  /\ UNCHANGED << appVars, isectVars, bufVars, callVars, runVars >>

\* the loading phase of one update tick
LoaderTick ==
  /\ ~registry_failed
  /\ loader.ticks < MaxTicks
  /\ LET st == loader_loop([registry |-> registry, loader |-> loader], 0)
     IN  /\ registry' = st.registry
         /\ loader' = [st.loader EXCEPT !.ticks = @ + 1]
  /\ UNCHANGED << registry_log, registry_failed >>
  /\ UNCHANGED << appVars, isectVars, bufVars, callVars, runVars >>

SpecLoader == Init /\ [][LoaderEnqueue \/ LoaderTick]_vars

Min(a, b) == IF a <= b THEN a ELSE b

\* C18: each update tick advances next_load_id by exactly
\* min(LOAD_SPEED, next_block_id - next_load_id), and next_load_id never
\* exceeds next_block_id.
C18_LoaderAdvance ==
  [][ /\ loader'.ticks # loader.ticks =>
           loader'.next_load_id - loader.next_load_id
             = Min(LOAD_SPEED, registry.next_id - loader.next_load_id)
      /\ loader'.next_load_id <= registry'.next_id
    ]_vars

\* a tick has loaded a full batch and left a block waiting
C18_Witness ==
  /\ loader.ticks = 1
  /\ loader.next_load_id = 2 + LOAD_SPEED
  /\ loader.next_load_id < registry.next_id
  /\ Len(loader.index_to_id) = LOAD_SPEED

\* The loading phase of every update tick the main loop runs, with no bound
\* on their number; ticks is 0 after a tick that materialized a block and 1
\* after one that found nothing to load.
LoaderRun ==
  /\ ~registry_failed
  /\ LET st == loader_loop([registry |-> registry, loader |-> loader], 0)
     IN  /\ registry' = st.registry
         /\ loader' = st.loader
         /\ ticks' = IF st.loader = loader THEN 1 ELSE 0
  /\ UNCHANGED << registry_log, registry_failed >>
  /\ UNCHANGED << keys_down, twin >>
  /\ UNCHANGED << appVars, isectVars, bufVars, callVars >>

\* The loader in a main loop that keeps calling update: a tick that has
\* something to load is not put off for ever.
SpecLoaderFair ==
  Init /\ [][LoaderEnqueue \/ LoaderRun]_vars /\ WF_vars(LoaderRun)

\* the ids world generation has allocated
IdsAllocated == 2..(next_block_id(registry) - 1)

\* every allocated block is materialized: it is in both tables of the
\* registry and in the slot mapping once
AllLoaded ==
  /\ loader.next_load_id = next_block_id(registry)
  /\ DOMAIN registry.physics = IdsAllocated
  /\ DOMAIN registry.blocks = IdsAllocated
  /\ Len(loader.index_to_id) = Cardinality(IdsAllocated)
  /\ \A id \in IdsAllocated :
       Cardinality({k \in 1..Len(loader.index_to_id) : loader.index_to_id[k] = id}) = 1

\* C33: world generation allocates finitely many ids; from some tick on
\* next_load_id = next_block_id and every allocated block is in the
\* registry and in the slot mapping exactly once, and a tick that begins in
\* such a state materializes nothing.
C33_LoadingCompletes ==
  /\ <>[]AllLoaded
  /\ [][ (AllLoaded /\ registry_log' = registry_log) =>
           UNCHANGED << registry, loader >> ]_vars

\* more blocks than one tick loads have been materialized, all that were
\* allocated, and a tick has run since that found nothing to load
C33_Witness ==
  /\ AllLoaded
  /\ Len(loader.index_to_id) > LOAD_SPEED
  /\ ticks = 1


(***************************************************************************)
(* A geometry buffer on its own: the outline buffer, one record of         *)
(* LINE_VERTICES_PER_BLOCK vertices per block, under any sequence of push  *)
(* and swap_remove calls, the GLBuffer of main.rs and that of glw.rs side  *)
(* by side.  The records pushed are those of the first and of the last     *)
(* block of the world; any slot may be named for removal, in use or not.   *)
(***************************************************************************)
\* A variant that calls swap_remove without the test.
remove_record_NoAssert(buf, span, i) ==
  [failed |-> FALSE, buf |-> swap_remove(buf, span, i)]

\* The removal of a block's record as update() does it with the GLBuffer of
\* main.rs: swap_remove has no test of its own, and update() asserts
\* block_index < world_data.len() before it calls it with i = block_index.  world_data holds as
\* many blocks as the buffer holds records.
remove_record(buf, span, i) ==
  IF ~(i < buf.length \div span)
  THEN [failed |-> TRUE, buf |-> buf]
  ELSE [failed |-> FALSE, buf |-> swap_remove(buf, span, i)]

BufferPush ==
  /\ ~buffer.failed /\ ~glw_buffer.failed
  /\ \E k \in {1, Len(World)} :
       LET vs == to_outlines(World[k]) IN
       /\ buffer' = IF Overfilled(buffer.buf)
                    THEN [failed |-> TRUE, buf |-> buffer.buf]
                    ELSE [failed |-> FALSE, buf |-> push(buffer.buf, vs)]
       /\ glw_buffer' = glw_push(glw_buffer.buf, vs)
  /\ buffer_op' = [name |-> "push", slot |-> None]
  /\ UNCHANGED << appVars, isectVars, regVars, callVars, runVars >>

BufferSwapRemove ==
  /\ ~buffer.failed /\ ~glw_buffer.failed
  /\ \E i \in 0..Len(World) :
       /\ buffer' = remove_record(buffer.buf, LINE_VERTICES_PER_BLOCK, i)
       /\ glw_buffer' = glw_swap_remove(glw_buffer.buf, LINE_VERTICES_PER_BLOCK, i)
       /\ buffer_op' = [name |-> "swap_remove", slot |-> i]
  /\ UNCHANGED << appVars, isectVars, regVars, callVars, runVars >>

SpecBuffer == Init /\ [][BufferPush \/ BufferSwapRemove]_vars

read_pixels(x, y, window_height, window_width) ==
  IF ~(x < window_width) THEN "failed"
  ELSE IF ~(y < window_width) THEN "failed"
  ELSE "read"

InitPixels ==
  /\ AppInit /\ IsectIdle /\ RegistryInit /\ BufferInit /\ RunInit /\ GLIdle
  /\ color_call = [ids |-> << 0, 0 >>, outcome |-> "none"]
  /\ pixel_call \in [x : 0..(MaxWindow + 1), y : 0..(MaxWindow + 1),
                      window_height : 1..MaxWindow, window_width : 1..MaxWindow,
                      outcome : {"none"}]

ReadPixels ==
  /\ pixel_call.outcome = "none"
  /\ pixel_call' =
       [pixel_call EXCEPT !.outcome =
          read_pixels(pixel_call.x, pixel_call.y,
                      pixel_call.window_height, pixel_call.window_width)]
  /\ UNCHANGED << appVars, isectVars, regVars, bufVars, color_call, gl_context, runVars >>

SpecPixels == InitPixels /\ [][ReadPixels]_vars

\* C29: read_pixels fails for every (x, y) that is not a pixel of the
\* window (x >= window_width or y >= window_height) and succeeds for every
\* pixel inside the window.
C29_FailsOutsideWindow ==
  pixel_call.outcome # "none" =>
    (pixel_call.outcome = "failed"
       <=> (pixel_call.x >= pixel_call.window_width
              \/ pixel_call.y >= pixel_call.window_height))

(***************************************************************************)
(* selection_color on its own: two ids, taken from both sides of each byte *)
(* boundary of the id, and their colours.                                  *)
(***************************************************************************)
ColorIds ==
  { 0, 1, 254, 255, 256, 65534, 65535, 65536, 16777214, 16777215, 16777216,
    16777217, 33554432 }

InitColors ==
  /\ AppInit /\ IsectIdle /\ RegistryInit /\ BufferInit /\ RunInit /\ GLIdle
  /\ pixel_call = [x |-> 0, y |-> 0, window_height |-> 1, window_width |-> 1,
                   outcome |-> "none"]
  /\ color_call \in [ids : ColorIds \X ColorIds, outcome : {"none"}]

\* the outcome: "failed" when an assertion fails, otherwise the two colours
SelectionColors ==
  /\ color_call.outcome = "none"
  /\ color_call' =
       [color_call EXCEPT !.outcome =
          IF ~selection_color_ok(color_call.ids[1]) \/ ~selection_color_ok(color_call.ids[2])
          THEN "failed"
          ELSE << selection_color(color_call.ids[1]), selection_color(color_call.ids[2]) >>]
  /\ UNCHANGED << appVars, isectVars, regVars, bufVars, pixel_call, gl_context, runVars >>

SpecColors == InitColors /\ [][SelectionColors]_vars

\* the red, green and blue of a colour
RGB(c) == << c[1], c[2], c[3] >>

\* C27: the colours of two distinct ids below 0xFF000000 differ in their
\* red, green and blue (every id of ColorIds is below 0xFF000000, so none
\* of these calls fails).
C27_InjectiveColors ==
  color_call.outcome # "none" =>
    /\ color_call.outcome # "failed"
    /\ color_call.ids[1] # color_call.ids[2]
         => RGB(color_call.outcome[1]) # RGB(color_call.outcome[2])

(***************************************************************************)
(* use_shader of src/src/glw.rs on its own: any program, or none (0), is   *)
(* in use when it is called, and the closure it runs may call use_shader   *)
(* again; it calls nothing else that changes the program in use.           *)
(***************************************************************************)
Programs == 1..MaxPrograms

\* use_shader up to the call of f: old_shader is what get_current_shader
\* returns, then gl::UseProgram(shader.id)
use_shader_call(gl, shader) ==
  [gl EXCEPT !.calls = Append(@, [old_shader |-> gl.current_program, shader |-> shader]),
             !.current_program = shader]

\* use_shader after f has returned: if old_shader != 0 { gl::UseProgram(old_shader) }
use_shader_return(gl) ==
  LET call == gl.calls[Len(gl.calls)]
      current == IF call.old_shader # 0 THEN call.old_shader ELSE gl.current_program
  IN  [current_program |-> current,
       calls |-> SubSeq(gl.calls, 1, Len(gl.calls) - 1),
       returned |-> [old_shader |-> call.old_shader, shader |-> call.shader,
                     current_program |-> current]]

InitShader ==
  /\ AppInit /\ IsectIdle /\ RegistryInit /\ BufferInit /\ RunInit
  /\ pixel_call = [x |-> 0, y |-> 0, window_height |-> 1, window_width |-> 1,
                   outcome |-> "none"]
  /\ color_call = [ids |-> << 0, 0 >>, outcome |-> "none"]
  /\ gl_context \in
       [current_program : {0} \cup Programs, calls : {<< >>},
        returned : {[old_shader |-> 0, shader |-> 0, current_program |-> 0]}]

UseShaderCall ==
  /\ Len(gl_context.calls) < MaxNest
  /\ \E shader \in Programs : gl_context' = use_shader_call(gl_context, shader)
  /\ UNCHANGED << appVars, isectVars, regVars, bufVars, pixel_call, color_call, runVars >>

UseShaderReturn ==
  /\ gl_context.calls # << >>
  /\ gl_context' = use_shader_return(gl_context)
  /\ UNCHANGED << appVars, isectVars, regVars, bufVars, pixel_call, color_call, runVars >>

SpecShader == InitShader /\ [][UseShaderCall \/ UseShaderReturn]_vars

\* C38: when a call of use_shader has returned, the program in use is the
\* one that was in use when it was called, whatever that was and however
\* deep the call was nested.
C38_ShaderRestored ==
  gl_context.returned.shader # 0 =>
    gl_context.returned.current_program = gl_context.returned.old_shader


=============================================================================
